---- MODULE Spec2Model ----
(***************************************************************************)
(* Event deduplication and consolidation of IFI-Events:                    *)
(*   src/src/utils/deduplication.py   classifier, merge, insertion guard   *)
(*   src/src/new_event_handler.py     process_new_events, cross-source     *)
(*                                    linker                               *)
(*   src/src/config/data_sources.py   source priority table                *)
(*   src/scripts/helper/db_maintenance.py   batch consolidator             *)
(*                                                                         *)
(* Encoding of Python values:                                              *)
(*   Optional[int] / Optional[datetime]  <<>> is None, <<v>> is the value  *)
(*   datetime                            minutes on one UTC time line      *)
(*   title, location                     sequence of one-character strings *)
(*   description, author                 sequence of text pieces; <<>> is  *)
(*                                       the empty (falsy) text            *)
(*   source_name, attachment             string, "" is the falsy value     *)
(***************************************************************************)
EXTENDS Integers, Sequences, FiniteSets, TLC

VARIABLES
    cfg,        \* module constants of deduplication.py (lines 11-17), as one record
    ev1, ev2,   \* two Event objects handed to the classifier / to merge_events
    outs,       \* the values returned by the calls made so far, oldest first
    phase,      \* which operation the pure-function specifications are at
    events,     \* the list of Event objects handed to a batch operation
    store,      \* the events table as the open session sees it: id -> row
    committed,  \* the events table as the last commit left it: id -> row
    sessions,   \* ingestion runs in sessions of their own: run -> record
    pc,         \* where process_new_events is: "idle", "loop" or "link"
    args,       \* source_id, skip_merging and len(events) of the running call
    idx,        \* position in events of the event the loop is at
    event,      \* the loop variable: the event of the last pass, as read
    counts,     \* <<new_count, update_count>>
    cur,        \* id of the freshly added event the linker is working for
    cands       \* ids the loop of the linker has still to visit

storeVars == <<store, committed, sessions, pc, args, idx, event, counts, cur,
               cands>>

vars == <<cfg, ev1, ev2, outs, phase, events, store, committed, sessions, pc,
          args, idx, event, counts, cur, cands>>

-----------------------------------------------------------------------------
(* Python values *)

None == <<>>
Some(v) == <<v>>
Val(o) == o[1]

\* truth value of an Optional[datetime]: only None is falsy
TruthyTime(o) == o # None
\* truth value of an Optional[int]: None and 0 are falsy
TruthyInt(o) == o # None /\ Val(o) # 0

Min(x, y) == IF x <= y THEN x ELSE y
Max(x, y) == IF x >= y THEN x ELSE y
Abs(x) == IF x < 0 THEN 0 - x ELSE x

-----------------------------------------------------------------------------
(* deduplication.py: configuration constants *)

TITLE_SIMILARITY_THRESHOLD == 85      \* 0.85, in hundredths
TIME_WINDOW_MINUTES == 120
REQUIRE_SAME_LOCATION == FALSE
REQUIRE_EXACT_TIME == FALSE
REQUIRE_SAME_SOURCE == TRUE

DefaultCfg ==
    [title_similarity_threshold |-> TITLE_SIMILARITY_THRESHOLD,
     time_window_minutes        |-> TIME_WINDOW_MINUTES,
     require_same_location      |-> REQUIRE_SAME_LOCATION,
     require_exact_time         |-> REQUIRE_EXACT_TIME,
     require_same_source        |-> REQUIRE_SAME_SOURCE]

-----------------------------------------------------------------------------
(* deduplication.py: normalize_string *)

\* str.lower() on the characters the model uses
Lower(c) ==
    CASE c = "A" -> "a"
      [] c = "B" -> "b"
      [] c = "C" -> "c"
      [] OTHER   -> c

\* ' '.join(text.split()): drop leading and trailing blanks, collapse runs
RECURSIVE JoinSplit(_, _, _)
JoinSplit(text, i, acc) ==
    IF i > Len(text) THEN acc
    ELSE IF text[i] = " " THEN JoinSplit(text, i + 1, acc)
    ELSE IF acc # <<>> /\ i > 1 /\ text[i - 1] = " "
         THEN JoinSplit(text, i + 1, acc \o <<" ", text[i]>>)
         ELSE JoinSplit(text, i + 1, Append(acc, text[i]))

normalize_string(text) ==
    IF text = <<>> THEN <<>>
    ELSE JoinSplit([i \in 1..Len(text) |-> Lower(text[i])], 1, <<>>)

-----------------------------------------------------------------------------
(* difflib.SequenceMatcher(None, a, b).ratio(), as calculate_title_similarity
   calls it.  Indices are 0-based and ranges half-open as in difflib; the
   autojunk heuristic only applies to sequences of 200 or more elements. *)

\* length of the common run of a[i:ahi] and b[j:bhi]
RECURSIVE RunLen(_, _, _, _, _, _)
RunLen(a, b, i, j, ahi, bhi) ==
    IF i < ahi /\ j < bhi /\ a[i + 1] = b[j + 1]
    THEN 1 + RunLen(a, b, i + 1, j + 1, ahi, bhi)
    ELSE 0

\* find_longest_match: the longest block, of those the one starting earliest
\* in a, of those the one starting earliest in b
find_longest_match(a, b, alo, ahi, blo, bhi) ==
    LET runs == {<<i, j, RunLen(a, b, i, j, ahi, bhi)>> :
                     i \in alo..(ahi - 1), j \in blo..(bhi - 1)}
        hits == {r \in runs : r[3] > 0}
    IN  IF hits = {} THEN <<alo, blo, 0>>
        ELSE CHOOSE r \in hits :
                \A s \in hits :
                    \/ r[3] > s[3]
                    \/ r[3] = s[3] /\ r[1] < s[1]
                    \/ r[3] = s[3] /\ r[1] = s[1] /\ r[2] <= s[2]

\* get_matching_blocks: total size of the blocks found left and right of the
\* longest match, recursively
RECURSIVE MatchedSize(_, _, _, _, _, _)
MatchedSize(a, b, alo, ahi, blo, bhi) ==
    LET m == find_longest_match(a, b, alo, ahi, blo, bhi)
        i == m[1]
        j == m[2]
        k == m[3]
    IN  IF k = 0 THEN 0
        ELSE k
             + (IF alo < i /\ blo < j
                THEN MatchedSize(a, b, alo, i, blo, j) ELSE 0)
             + (IF i + k < ahi /\ j + k < bhi
                THEN MatchedSize(a, b, i + k, ahi, j + k, bhi) ELSE 0)

\* ratio() = 2.0 * matches / length, 1.0 when both are empty; kept as the
\* exact fraction <<numerator, denominator>>
ratio(a, b) ==
    LET length == Len(a) + Len(b)
    IN  IF length = 0 THEN <<1, 1>>
        ELSE <<2 * MatchedSize(a, b, 0, Len(a), 0, Len(b)), length>>

A17 == [i \in 1..17 |-> "a"]

\* The titles the specifications draw from.
\* "cbcacca" / "cabccca": ratio 12/14 one way round, 10/14 the other;
\* " Cbcacca" normalises to "cbcacca"; 17 x "a" against 17 x "a" + "bbbbbb"
\* has ratio 34/40, against 17 x "a" + "bbbbbbb" it has 34/41
TitleA == <<"c", "b", "c", "a", "c", "c", "a">>
TitleB == <<"c", "a", "b", "c", "c", "c", "a">>
TitleC == <<" ", "C", "b", "c", "a", "c", "c", "a">>
Title17 == A17
Title23 == A17 \o <<"b", "b", "b", "b", "b", "b">>
Title24 == A17 \o <<"b", "b", "b", "b", "b", "b", "b">>
\* "abccca" and "cabcca" each have ratio 12/13 with "cabccca" and ratio
\* 10/12 with each other, in both argument orders
TitleD == <<"a", "b", "c", "c", "c", "a">>
TitleE == <<"c", "a", "b", "c", "c", "a">>

Titles == {TitleA, TitleB, TitleC, TitleD, TitleE, Title17, Title23, Title24}

\* calculate_title_similarity on every pair of titles, computed once
TitleSimilarity ==
    [t1 \in Titles, t2 \in Titles |->
        ratio(normalize_string(t1), normalize_string(t2))]

calculate_title_similarity(title1, title2) == TitleSimilarity[title1, title2]

-----------------------------------------------------------------------------
(* deduplication.py: are_events_duplicate *)

\* line 51 with <= for <
RatioBelowOrEqual(r, hundredths) == r[1] * 100 <= hundredths * r[2]

\* ratio < threshold (line 51), the threshold given in hundredths
RatioBelow(r, hundredths) == r[1] * 100 < hundredths * r[2]

\* line 60 with >= for >
OutsideTimeWindowOrOnEdge(event1, event2, c) ==
    Abs(event1.start_time - event2.start_time) >= c.time_window_minutes

\* abs(event1.start_time - event2.start_time) > time_window (lines 59-60)
OutsideTimeWindow(event1, event2, c) ==
    Abs(event1.start_time - event2.start_time) > c.time_window_minutes

\* the classifier, with the module constants it reads passed as c
are_events_duplicate_cfg(event1, event2, c) ==
    IF c.require_same_source
       /\ (event1.source_name = "" \/ event2.source_name = ""
           \/ event1.source_name # event2.source_name)
    THEN FALSE
    ELSE IF RatioBelow(calculate_title_similarity(event1.title, event2.title),
                       c.title_similarity_threshold)
    THEN FALSE
    ELSE IF c.require_exact_time
            /\ (event1.start_time # event2.start_time
                \/ event1.end_time # event2.end_time)
    THEN FALSE
    ELSE IF ~c.require_exact_time /\ OutsideTimeWindow(event1, event2, c)
    THEN FALSE
    ELSE IF c.require_same_location
            /\ normalize_string(event1.location) # normalize_string(event2.location)
    THEN FALSE
    ELSE TRUE

\* the classifier called as if REQUIRE_SAME_SOURCE were off
are_events_duplicate_any_source(event1, event2) ==
    are_events_duplicate_cfg(event1, event2,
                             [cfg EXCEPT !.require_same_source = FALSE])

\* the classifier as the code calls it, reading the module constants
are_events_duplicate(event1, event2) ==
    are_events_duplicate_cfg(event1, event2, cfg)

-----------------------------------------------------------------------------
(* Event records (src/src/models/event.py and the attributes that
   deduplication.py and new_event_handler.py read and write) *)

\* an Event as a collector builds it before any field is filled in
BlankEvent ==
    [id |-> None, title |-> <<>>, description |-> <<>>,
     start_time |-> 0, end_time |-> None, location |-> <<>>,
     source_name |-> "", fetched_at |-> None, created_at |-> None,
     registration_opens |-> None, attachment |-> "", author |-> <<>>,
     parent_id |-> None]

\* nothing is running against the store and the table is empty
NoArgs == [source_id |-> "", skip_merging |-> FALSE, length |-> 0]

\* no other session is open
NoSessions == <<>>

StoreIdle ==
    /\ store = <<>>
    /\ committed = <<>>
    /\ sessions = NoSessions
    /\ pc = "idle"
    /\ args = NoArgs
    /\ idx = 0
    /\ event = BlankEvent
    /\ counts = <<0, 0>>
    /\ cur = 0
    /\ cands = {}

-----------------------------------------------------------------------------
(* Inputs of the classifier specification *)

DupTitles == {TitleA, TitleB, TitleC, Title17, Title23, Title24}
DupTimes == {0, TIME_WINDOW_MINUTES, TIME_WINDOW_MINUTES + 1}
DupEndTimes == {None, Some(4 * TIME_WINDOW_MINUTES)}
DupSources == {"", "Navet", "Peoply"}
DupLocations == {<<"a">>, <<"A", " ">>}

DupEvents ==
    {[BlankEvent EXCEPT !.title = t, !.start_time = s, !.end_time = e,
                        !.location = l, !.source_name = n] :
        t \in DupTitles, s \in DupTimes, e \in DupEndTimes,
        l \in DupLocations, n \in DupSources}

DupConfigs ==
    [title_similarity_threshold : {TITLE_SIMILARITY_THRESHOLD},
     time_window_minutes        : {TIME_WINDOW_MINUTES},
     require_same_location      : BOOLEAN,
     require_exact_time         : BOOLEAN,
     require_same_source        : BOOLEAN]

-----------------------------------------------------------------------------
(* Specification SpecDup: are_events_duplicate applied to a pair of events,
   in both argument orders *)

InitDup ==
    /\ cfg \in DupConfigs
    /\ ev1 \in DupEvents
    /\ ev2 \in DupEvents
    /\ outs = <<>>
    /\ phase = "start"
    /\ events = <<>>
    /\ StoreIdle

Classify ==
    /\ phase = "start"
    /\ outs' = <<are_events_duplicate_cfg(ev1, ev2, cfg),
                 are_events_duplicate_cfg(ev2, ev1, cfg)>>
    /\ phase' = "classified"
    /\ UNCHANGED <<cfg, ev1, ev2, events>>
    /\ UNCHANGED storeVars

NextDup == Classify

SpecDup == InitDup /\ [][NextDup]_vars

-----------------------------------------------------------------------------
(* Properties of the classifier, checked under SpecDup *)

SameSourceOk(e1, e2, c) ==
    c.require_same_source =>
        e1.source_name # "" /\ e2.source_name # ""
        /\ e1.source_name = e2.source_name

TitleOk(e1, e2, c) ==
    LET sim == calculate_title_similarity(e1.title, e2.title)
    IN  sim[1] * 100 >= c.title_similarity_threshold * sim[2]

TimeOk(e1, e2, c) ==
    IF c.require_exact_time
    THEN e1.start_time = e2.start_time /\ e1.end_time = e2.end_time
    ELSE Abs(e1.start_time - e2.start_time) <= c.time_window_minutes

LocationOk(e1, e2, c) ==
    c.require_same_location =>
        normalize_string(e1.location) = normalize_string(e2.location)

\* C1: the classifier is symmetric: for every pair of events and every
\* setting of the flags, are_events_duplicate(a, b) = are_events_duplicate(b, a).
C1_Symmetric ==
    phase = "classified" => outs[1] = outs[2]

\* C5: when every other check passes, a title similarity exactly at the
\* threshold is classified duplicate and a similarity below it is not.
C5_ThresholdBoundary ==
    (/\ phase = "classified"
     /\ SameSourceOk(ev1, ev2, cfg)
     /\ TimeOk(ev1, ev2, cfg)
     /\ LocationOk(ev1, ev2, cfg))
    => LET sim == calculate_title_similarity(ev1.title, ev2.title)
           thr == cfg.title_similarity_threshold
       IN  /\ sim[1] * 100 = thr * sim[2] => outs[1] = TRUE
           /\ sim[1] * 100 < thr * sim[2] => outs[1] = FALSE

C5_Witness ==
    /\ phase = "classified"
    /\ SameSourceOk(ev1, ev2, cfg)
    /\ TimeOk(ev1, ev2, cfg)
    /\ LocationOk(ev1, ev2, cfg)
    /\ ev1.title = Title17 /\ ev2.title = Title23
    /\ calculate_title_similarity(ev1.title, ev2.title)
           = <<34, 40>>
    /\ outs[1] = TRUE

\* C6: with require_exact_time false and every other check passing, start
\* times exactly time_window_minutes apart are classified duplicate and
\* start times one minute further apart are not, whichever event is first.
C6_TimeWindowBoundary ==
    (/\ phase = "classified"
     /\ ~cfg.require_exact_time
     /\ SameSourceOk(ev1, ev2, cfg)
     /\ TitleOk(ev1, ev2, cfg)
     /\ LocationOk(ev1, ev2, cfg))
    => LET apart == Abs(ev1.start_time - ev2.start_time)
       IN  /\ apart = cfg.time_window_minutes => outs[1] = TRUE
           /\ apart = cfg.time_window_minutes + 1 => outs[1] = FALSE

C6_Witness ==
    /\ phase = "classified"
    /\ ~cfg.require_exact_time
    /\ SameSourceOk(ev1, ev2, cfg)
    /\ TitleOk(ev1, ev2, cfg)
    /\ LocationOk(ev1, ev2, cfg)
    /\ ev1.start_time - ev2.start_time = cfg.time_window_minutes
    /\ outs[1] = TRUE

-----------------------------------------------------------------------------
(* deduplication.py: EVENT_MERGE_STRATEGIES, each applied to (base, other) *)

\* line 74 keeping only the base's id
merge_id_of_base(e1, e2) == e1.id

\* 'id': e1.id or e2.id
merge_id(e1, e2) == IF TruthyInt(e1.id) THEN e1.id ELSE e2.id

\* 'description': f"{e1.description}\n\nAlternative description:\n{e2.description}"
merge_description(e1, e2) ==
    IF e2.description # <<>> /\ e2.description # e1.description
    THEN e1.description \o <<"\n\nAlternative description:\n">> \o e2.description
    ELSE e1.description

\* 'start_time': min
\* 'start_time' moved back from that of e1 by the distance of the two
merge_start_time_back(e1, e2) ==
    e1.start_time - Abs(e1.start_time - e2.start_time)

merge_start_time(e1, e2) == Min(e1.start_time, e2.start_time)

\* 'end_time' as "e1.end_time or e2.end_time"
merge_end_time_first(e1, e2) ==
    IF TruthyTime(e1.end_time) THEN e1.end_time ELSE e2.end_time

\* 'end_time': max when both are set, else whichever is set
merge_end_time(e1, e2) ==
    IF TruthyTime(e1.end_time) /\ TruthyTime(e2.end_time)
    THEN Some(Max(Val(e1.end_time), Val(e2.end_time)))
    ELSE IF TruthyTime(e1.end_time) THEN e1.end_time ELSE e2.end_time

\* 'created_at': min when both are set, else whichever is set
merge_created_at(e1, e2) ==
    IF TruthyTime(e1.created_at) /\ TruthyTime(e2.created_at)
    THEN Some(Min(Val(e1.created_at), Val(e2.created_at)))
    ELSE IF TruthyTime(e1.created_at) THEN e1.created_at ELSE e2.created_at

\* 'registration_opens': min when both are set, else whichever is set
merge_registration_opens(e1, e2) ==
    IF TruthyTime(e1.registration_opens) /\ TruthyTime(e2.registration_opens)
    THEN Some(Min(Val(e1.registration_opens), Val(e2.registration_opens)))
    ELSE IF TruthyTime(e1.registration_opens)
         THEN e1.registration_opens ELSE e2.registration_opens

\* 'source_name'
merge_source_name(e1, e2) ==
    IF e1.source_name = e2.source_name THEN e1.source_name
    ELSE IF e1.source_name # "" THEN e1.source_name ELSE e2.source_name

\* 'attachment'
merge_attachment(e1, e2) ==
    IF e2.attachment # "" THEN e2.attachment ELSE e1.attachment

\* 'author': f"{e1.author}, {e2.author}"
merge_author(e1, e2) ==
    IF e1.author # <<>> /\ e2.author # <<>> /\ e1.author # e2.author
    THEN e1.author \o <<", ">> \o e2.author
    ELSE IF e1.author # <<>> THEN e1.author ELSE e2.author

-----------------------------------------------------------------------------
(* deduplication.py: merge_events *)

\* datetime.min: earlier than every fetch time
DatetimeMin == -1

\* event.fetched_at or datetime.min.replace(...)
FetchTime(e) == IF TruthyTime(e.fetched_at) THEN Val(e.fetched_at) ELSE DatetimeMin

\* line 111 with >= in place of >
BaseIsEvent2OnTie(event1, event2) == FetchTime(event2) >= FetchTime(event1)

\* event2_time > event1_time: the second argument is the base
BaseIsEvent2(event1, event2) == FetchTime(event2) > FetchTime(event1)

\* the loop over EVENT_MERGE_STRATEGIES, each strategy(base_event, other_event)
\* assigned to its field of base_event, then the source_name kept at line 129
ApplyStrategies(base_event, other_event) ==
    LET source_name ==
            IF base_event.source_name = other_event.source_name
            THEN base_event.source_name ELSE ""
        merged ==
            [base_event EXCEPT
                !.id = merge_id(base_event, other_event),
                !.description = merge_description(base_event, other_event),
                !.start_time = merge_start_time(base_event, other_event),
                !.end_time = merge_end_time(base_event, other_event),
                !.created_at = merge_created_at(base_event, other_event),
                !.registration_opens =
                    merge_registration_opens(base_event, other_event),
                !.source_name = merge_source_name(base_event, other_event),
                !.attachment = merge_attachment(base_event, other_event),
                !.author = merge_author(base_event, other_event)]
    IN  IF source_name # ""
        THEN [merged EXCEPT !.source_name = source_name]
        ELSE merged

\* the state of the object merge_events returns.  No copy is made: the
\* returned object is the base argument itself, assigned in place.
merge_events(event1, event2) ==
    IF BaseIsEvent2(event1, event2)
    THEN ApplyStrategies(event2, event1)
    ELSE ApplyStrategies(event1, event2)

-----------------------------------------------------------------------------
(* Specification SpecMerge: merge_events(a, b) called on the same two Event
   objects, MaxMergeCalls times in a row *)

MaxMergeCalls == 2

\* The pairs (a, b) merge_events is called on.  Every strategy reads one
\* field of the two events and the choice of the base reads fetched_at, so
\* each group of fields is varied together with fetched_at.
MergeA == [BlankEvent EXCEPT !.title = TitleA, !.source_name = "Navet"]
MergeB == [BlankEvent EXCEPT !.title = TitleB, !.source_name = "Navet",
                             !.start_time = 30]
FetchedA == {None, Some(1), Some(2)}
FetchedB == {None, Some(1)}

MergePairsText ==
    {<<[MergeA EXCEPT !.fetched_at = fa, !.id = ia, !.description = da,
                      !.author = aa],
       [MergeB EXCEPT !.fetched_at = fb, !.id = ib, !.description = db,
                      !.author = ab]>> :
        fa \in FetchedA, fb \in FetchedB,
        ia \in {None, Some(1)}, ib \in {None, Some(2)},
        da \in {<<>>, <<"x">>}, db \in {<<>>, <<"x">>, <<"y">>},
        aa \in {<<>>, <<"ann">>}, ab \in {<<>>, <<"ann">>, <<"bob">>}}

MergePairsTimes ==
    {<<[MergeA EXCEPT !.fetched_at = fa, !.start_time = sa, !.end_time = ea,
                      !.created_at = ca, !.registration_opens = ra],
       [MergeB EXCEPT !.fetched_at = fb, !.end_time = eb,
                      !.created_at = cb, !.registration_opens = rb]>> :
        fa \in FetchedA, fb \in FetchedB, sa \in {0, 60},
        ea \in {None, Some(90)}, eb \in {None, Some(60), Some(120)},
        ca \in {None, Some(5)}, cb \in {None, Some(3), Some(7)},
        ra \in {None, Some(5)}, rb \in {None, Some(3)}}

MergePairsSource ==
    {<<[MergeA EXCEPT !.fetched_at = fa, !.id = ia, !.source_name = na,
                      !.attachment = ta],
       [MergeB EXCEPT !.fetched_at = fb, !.id = ib, !.source_name = nb,
                      !.attachment = tb]>> :
        fa \in FetchedA, fb \in FetchedB,
        ia \in {None, Some(1)}, ib \in {None, Some(2)},
        na \in {"", "Navet"}, nb \in {"", "Navet", "Peoply"},
        ta \in {"", "img1"}, tb \in {"", "img2"}}

MergePairs == MergePairsText \cup MergePairsTimes \cup MergePairsSource

InitMerge ==
    /\ cfg = DefaultCfg
    /\ \E p \in MergePairs :
          \/ ev1 = p[1] /\ ev2 = p[2]
          \/ ev1 = p[2] /\ ev2 = p[1]
    /\ outs = <<>>
    /\ phase = "merge"
    /\ events = <<>>
    /\ StoreIdle

\* one call merge_events(ev1, ev2); the base object is modified in place
CallMerge ==
    /\ phase = "merge"
    /\ Len(outs) < MaxMergeCalls
    /\ LET result == merge_events(ev1, ev2)
       IN  /\ outs' = Append(outs, [event1 |-> ev1, event2 |-> ev2,
                                    result |-> result])
           /\ IF BaseIsEvent2(ev1, ev2)
              THEN ev2' = result /\ ev1' = ev1
              ELSE ev1' = result /\ ev2' = ev2
    /\ UNCHANGED <<cfg, phase, events>>
    /\ UNCHANGED storeVars

NextMerge == CallMerge

SpecMerge == InitMerge /\ [][NextMerge]_vars

-----------------------------------------------------------------------------
(* Properties of merge_events, checked under SpecMerge *)

\* C3: merge_events(a, b) called twice with the same two input records
\* returns field-for-field identical output, description and author included.
C3_MergeDeterministic ==
    Len(outs) >= 2 => outs[1].result = outs[2].result

\* C7: if exactly one of the two inputs of merge_events has a non-null id,
\* the result has that id, whatever the argument order and the base.
C7_KeepsPersistedId ==
    \A k \in 1..Len(outs) :
        LET a == outs[k].event1
            b == outs[k].event2
        IN  /\ (a.id # None /\ b.id = None) => outs[k].result.id = a.id
            /\ (a.id = None /\ b.id # None) => outs[k].result.id = b.id

\* the base is the argument without an id, the result has the other one's id
C7_Witness ==
    /\ Len(outs) >= 1
    /\ outs[1].event1.id # None
    /\ outs[1].event2.id = None
    /\ BaseIsEvent2(outs[1].event1, outs[1].event2)
    /\ outs[1].result.id = outs[1].event1.id

-----------------------------------------------------------------------------
(* db_maintenance.py: _find_and_merge_duplicates *)

\* line 36 left out
NotMarked(processed_ids, id) == processed_ids

\* processed_ids.add(id)
MarkProcessed(processed_ids, id) == processed_ids \cup {id}

\* the inner loop (lines 30-38) from position j on
RECURSIVE InnerScan(_, _, _, _, _)
InnerScan(evs, j, current_event, processed_ids, duplicate_count) ==
    IF j > Len(evs)
    THEN [current_event |-> current_event, processed_ids |-> processed_ids,
          duplicate_count |-> duplicate_count]
    ELSE IF evs[j].id \in processed_ids
    THEN InnerScan(evs, j + 1, current_event, processed_ids, duplicate_count)
    ELSE IF are_events_duplicate(current_event, evs[j])
    THEN InnerScan(evs, j + 1, merge_events(current_event, evs[j]),
                   MarkProcessed(processed_ids, evs[j].id),
                   duplicate_count + 1)
    ELSE InnerScan(evs, j + 1, current_event, processed_ids, duplicate_count)

\* the outer loop (lines 25-41) from position i on
RECURSIVE OuterScan(_, _, _, _, _)
OuterScan(evs, i, merged_events, processed_ids, duplicate_count) ==
    IF i > Len(evs)
    THEN [merged_events |-> merged_events, duplicate_count |-> duplicate_count]
    ELSE IF evs[i].id \in processed_ids
    THEN OuterScan(evs, i + 1, merged_events, processed_ids, duplicate_count)
    ELSE LET r == InnerScan(evs, i + 1, evs[i], processed_ids, duplicate_count)
         IN  OuterScan(evs, i + 1, Append(merged_events, r.current_event),
                       MarkProcessed(r.processed_ids, evs[i].id),
                       r.duplicate_count)

\* line 22 with duplicate_count = 1
find_and_merge_duplicates_from_one(evs) == OuterScan(evs, 1, <<>>, {}, 1)

find_and_merge_duplicates(evs) == OuterScan(evs, 1, <<>>, {}, 0)

-----------------------------------------------------------------------------
(* Specification SpecBatch: _find_and_merge_duplicates applied to a list of
   at most MaxBatch persisted events with the ids 1, 2, ... *)

MaxBatch == 3

BatchTitles == {TitleA, TitleB, TitleD, TitleE}
BatchTimes == {0, 1, TIME_WINDOW_MINUTES + 1}
BatchFetched == {Some(1), Some(2)}

BatchEvent(i, t, s, f) ==
    [BlankEvent EXCEPT !.id = Some(i), !.title = t, !.start_time = s,
                       !.fetched_at = f, !.source_name = "Navet"]

InitBatch ==
    /\ cfg = DefaultCfg
    /\ ev1 = BlankEvent
    /\ ev2 = BlankEvent
    /\ outs = <<>>
    /\ phase = "batch"
    /\ StoreIdle
    /\ \E n \in 0..MaxBatch :
          \E ts \in [1..n -> BatchTitles], ss \in [1..n -> BatchTimes],
             fs \in [1..n -> BatchFetched] :
              events = [i \in 1..n |-> BatchEvent(i, ts[i], ss[i], fs[i])]

FindAndMerge ==
    /\ phase = "batch"
    /\ outs' = <<find_and_merge_duplicates(events)>>
    /\ phase' = "batched"
    /\ UNCHANGED <<cfg, ev1, ev2, events>>
    /\ UNCHANGED storeVars

NextBatch == FindAndMerge

SpecBatch == InitBatch /\ [][NextBatch]_vars

-----------------------------------------------------------------------------
(* Properties of _find_and_merge_duplicates, checked under SpecBatch *)

Positions == 1..Len(events)

\* the classifier accepts the two events in either argument order
DuplicateEitherWay(i, j) ==
    \/ are_events_duplicate(events[i], events[j])
    \/ are_events_duplicate(events[j], events[i])

\* the duplicate pairs of the input list
PairsEitherWay ==
    {p \in Positions \X Positions : p[1] < p[2] /\ DuplicateEitherWay(p[1], p[2])}

\* the pairs (earlier, later) the classifier accepts in list order
PairsInOrder ==
    {p \in Positions \X Positions :
        p[1] < p[2] /\ are_events_duplicate(events[p[1]], events[p[2]])}

\* no event is a duplicate of more than one other event
NoChains(pairs) ==
    \A p \in pairs, q \in pairs :
        p # q => {p[1], p[2]} \cap {q[1], q[2]} = {}

\* the merge of each pair is no duplicate of an event after the pair
MergedPairsStandAlone(pairs) ==
    \A p \in pairs : \A k \in Positions :
        k > p[2] =>
            ~are_events_duplicate(merge_events(events[p[1]], events[p[2]]),
                                  events[k])

\* C4 as stated: a list of N events with exactly K duplicate pairs and no
\* chains yields N - K merged events and a duplicate count of K.  (Stated
\* for lists on which the classifier gives the same verdict in both
\* argument orders.)
C4_BatchReduction ==
    (/\ phase = "batched"
     /\ PairsEitherWay = PairsInOrder
     /\ NoChains(PairsEitherWay))
    => /\ Len(outs[1].merged_events) = Len(events) - Cardinality(PairsEitherWay)
       /\ outs[1].duplicate_count = Cardinality(PairsEitherWay)

\* C4 amended: a list of N events with distinct ids in which exactly K pairs
\* (earlier, later) are accepted by are_events_duplicate(earlier, later), no
\* event is in more than one such pair, and the merge of each pair is not
\* accepted as a duplicate of any event after the pair, yields N - K merged
\* events and a duplicate count of K.
C4_BatchReductionAmended ==
    (/\ phase = "batched"
     /\ NoChains(PairsInOrder)
     /\ MergedPairsStandAlone(PairsInOrder))
    => /\ Len(outs[1].merged_events) = Len(events) - Cardinality(PairsInOrder)
       /\ outs[1].duplicate_count = Cardinality(PairsInOrder)

C4_Witness ==
    /\ phase = "batched"
    /\ Len(events) = 3
    /\ Cardinality(PairsInOrder) = 1
    /\ NoChains(PairsInOrder)
    /\ MergedPairsStandAlone(PairsInOrder)
    /\ Len(outs[1].merged_events) = 2
    /\ outs[1].duplicate_count = 1

-----------------------------------------------------------------------------
(* data_sources.py: SOURCES and the comparison of source priorities *)

SourceIds == {"peoply", "navet", "facebook-post", "facebook-event"}

SOURCES ==
    [id \in SourceIds |->
        CASE id = "peoply" ->
                [enabled |-> TRUE, priority |-> 100, name |-> "Peoply"]
          [] id = "navet" ->
                [enabled |-> TRUE, priority |-> 90, name |-> "Navet"]
          [] id = "facebook-post" ->
                [enabled |-> TRUE, priority |-> 10, name |-> "Facebook Post"]
          [] id = "facebook-event" ->
                [enabled |-> FALSE, priority |-> 70, name |-> "Facebook Event"]]

get_source_display_name(source_id) == SOURCES[source_id].name

\* get_source_display_name raises ValueError (lines 82-84)
unknown_source_id(source_id) == source_id \notin SourceIds

get_source_id_by_display_name(display_name) ==
    CHOOSE id \in SourceIds : SOURCES[id].name = display_name

\* get_source_id_by_display_name raises ValueError (lines 100-103)
unknown_display_name(display_name) ==
    \A id \in SourceIds : SOURCES[id].name # display_name

\* lines 119-123 with the two results exchanged
compare_source_priorities_reversed(name1, name2) ==
    LET priority1 == SOURCES[get_source_id_by_display_name(name1)].priority
        priority2 == SOURCES[get_source_id_by_display_name(name2)].priority
    IN  IF priority1 > priority2 THEN -1
        ELSE IF priority1 < priority2 THEN 1 ELSE 0

compare_source_priorities(name1, name2) ==
    LET priority1 == SOURCES[get_source_id_by_display_name(name1)].priority
        priority2 == SOURCES[get_source_id_by_display_name(name2)].priority
    IN  IF priority1 > priority2 THEN 1
        ELSE IF priority1 < priority2 THEN -1 ELSE 0

-----------------------------------------------------------------------------
(* deduplication.py: check_duplicate_before_insert, and the classifier of
   the cross-source linker *)

\* the guard with a filter that leaves out the two ends of the window
check_duplicate_inside_window(st, new_event) ==
    LET start_time == new_event.start_time - cfg.time_window_minutes
        end_time == new_event.start_time + cfg.time_window_minutes
        potential_duplicates ==
            {id \in DOMAIN st :
                /\ st[id].start_time > start_time
                /\ st[id].start_time < end_time
                /\ cfg.require_same_source =>
                      st[id].source_name = new_event.source_name}
    IN  {id \in potential_duplicates :
            are_events_duplicate(new_event, st[id])}

\* The ids of the rows the guard can return; the empty set stands for None.
\* The query has no ORDER BY, so the first duplicate of the result list is
\* any row that passes the filter and the classifier.
check_duplicate_before_insert(st, new_event) ==
    LET start_time == new_event.start_time - cfg.time_window_minutes
        end_time == new_event.start_time + cfg.time_window_minutes
        potential_duplicates ==
            {id \in DOMAIN st :
                /\ st[id].start_time >= start_time
                /\ st[id].start_time <= end_time
                /\ cfg.require_same_source =>
                      st[id].source_name = new_event.source_name}
    IN  {id \in potential_duplicates :
            are_events_duplicate(new_event, st[id])}

\* are_events_cross_source_duplicate: the classifier without the same-source
\* requirement
are_events_cross_source_duplicate(event1, event2) ==
    are_events_duplicate_cfg(event1, event2,
                             [cfg EXCEPT !.require_same_source = FALSE])

-----------------------------------------------------------------------------
(* new_event_handler.py: the cross-source linker *)

\* line 138 with "comparison > 0": a tie hands back event2 first
compare_source_priority_strict(st, id1, id2) ==
    IF compare_source_priorities(st[id1].source_name, st[id2].source_name) > 0
    THEN <<id1, id2>>
    ELSE <<id2, id1>>

\* compare_source_priority on the rows id1 and id2: <<higher, lower>>
compare_source_priority(st, id1, id2) ==
    IF compare_source_priorities(st[id1].source_name, st[id2].source_name) >= 0
    THEN <<id1, id2>>
    ELSE <<id2, id1>>

\* The while loop of lines 110-112 started at row id.  The loop has no bound
\* of its own; 0 stands for a walk that is still running after `hops` hops
\* or that reached an id without a row.
RECURSIVE topmost_parent(_, _, _)
topmost_parent(st, id, hops) ==
    IF id \notin DOMAIN st THEN 0
    ELSE IF st[id].parent_id = None THEN id
    ELSE IF hops = 0 THEN 0
    ELSE topmost_parent(st, Val(st[id].parent_id), hops - 1)

\* line 113 which in addition takes over the title of the parent
assign_parent_and_title(st, lower_priority_event, topmost) ==
    [st EXCEPT ![lower_priority_event].parent_id = Some(topmost),
               ![lower_priority_event].title = st[topmost].title]

\* lower_priority_event.parent_id = topmost_parent.id
assign_parent(st, lower_priority_event, topmost) ==
    [st EXCEPT ![lower_priority_event].parent_id = Some(topmost)]

\* lines 107-115 with the parent taken from the higher event itself
link_to_higher_event(st, event1, event2) ==
    LET pair == compare_source_priority(st, event1, event2)
    IN  assign_parent(st, pair[2], pair[1])

\* process_cross_source_duplicate on the rows event1 and event2
process_cross_source_duplicate(st, event1, event2) ==
    LET pair == compare_source_priority(st, event1, event2)
        top == topmost_parent(st, pair[1], Cardinality(DOMAIN st))
    IN  assign_parent(st, pair[2], top)

\* line 94-97 without the filter on source_name
all_rows_as_candidates(st, new_event) ==
    {id \in DOMAIN st : st[id].id # None}

\* The query of check_and_process_cross_source_duplicates.  new_event.id is
\* still None when the filter is built (the event is flushed by the query
\* itself), so "Event.id != new_event.id" is "id IS NOT NULL".
cross_source_candidates(st, new_event) ==
    {id \in DOMAIN st :
        /\ st[id].id # None
        /\ st[id].source_name # ""
        /\ st[id].source_name # new_event.source_name}

-----------------------------------------------------------------------------
(* new_event_handler.py: process_new_events against the events table *)

\* the id of the last row given again
NextIdOfLast(st) ==
    IF DOMAIN st = {} THEN 1
    ELSE CHOOSE m \in DOMAIN st : \A k \in DOMAIN st : k <= m

\* the id the table gives the next inserted row
NextId(st) ==
    IF DOMAIN st = {} THEN 1
    ELSE (CHOOSE m \in DOMAIN st : \A k \in DOMAIN st : k <= m) + 1

\* session.add(event), flushed by the next query
session_add(st, new_event) ==
    LET new_id == NextId(st)
    IN  [id \in DOMAIN st \cup {new_id} |->
            IF id = new_id THEN [new_event EXCEPT !.id = Some(new_id)]
            ELSE st[id]]

\* lines 65-69 adding the merged event as a row of its own
insert_merged(st, existing, new_event) ==
    session_add(st, merge_events(st[existing], new_event))

\* lines 65-69: merge_events(existing_event, event) and the setattr loop.
\* parent_id is no constructor argument of the collectors, so it is not in
\* the __dict__ of a merged incoming event and the row keeps its own.
update_existing(st, existing, new_event) ==
    LET merged_event == merge_events(st[existing], new_event)
    IN  [st EXCEPT ![existing] =
            [merged_event EXCEPT !.parent_id = st[existing].parent_id]]

\* bounds of the model: rows in the table, events per call
MaxRows == 3
MaxEvents == 2

FeedIds == {"peoply", "navet", "facebook-post"}
NewTimes == {0, TIME_WINDOW_MINUTES, 2 * TIME_WINDOW_MINUTES}

\* what a collector scraped for the event that starts at s
NewTitle(s) == IF s = TIME_WINDOW_MINUTES THEN TitleD ELSE TitleB
NewFetched(s) == IF s = TIME_WINDOW_MINUTES THEN Some(2) ELSE Some(1)

\* the source_name a collector gives its events: the display name of its
\* entry in SOURCES, or the name its processor writes when it has no entry
CollectorName(source_id) ==
    IF unknown_source_id(source_id) THEN source_id
    ELSE get_source_display_name(source_id)

\* events as the collector of source_id hands them over: no id, no parent,
\* source_name set by the collector or left to process_new_events
NewEvents(source_id) ==
    {[BlankEvent EXCEPT !.title = NewTitle(s), !.fetched_at = NewFetched(s),
                        !.start_time = s, !.source_name = n] :
        s \in NewTimes, n \in {"", CollectorName(source_id)}}

Init ==
    /\ cfg = DefaultCfg
    /\ ev1 = BlankEvent
    /\ ev2 = BlankEvent
    /\ outs = <<>>
    /\ phase = "store"
    /\ events = <<>>
    /\ StoreIdle

\* process_new_events(events, source_id, skip_merging) is called with a list
\* of args.length events.  The list is read one element per pass of the for
\* loop, so each element is drawn in the pass that reads it.
StartProcessFrom(feeds) ==
    /\ pc = "idle"
    /\ \E n \in 0..Min(MaxEvents, MaxRows - Cardinality(DOMAIN store)) :
        \E source_id \in feeds, skip_merging \in BOOLEAN :
            /\ counts' = <<0, 0>>
            /\ IF n = 0
               THEN UNCHANGED <<pc, args, idx>>
               ELSE /\ args' = [source_id |-> source_id,
                                skip_merging |-> skip_merging,
                                length |-> n]
                    /\ idx' = 1
                    /\ pc' = "loop"
    /\ UNCHANGED <<cfg, ev1, ev2, outs, phase, events, store, committed,
                   sessions, event, cur, cands>>

\* a call for one of the sources of FeedIds
StartProcess == StartProcessFrom(FeedIds)

\* line 52-53 raises: the event has no source_name and source_id no entry
fill_source_name_raises(read, source_id) ==
    read.source_name = "" /\ unknown_source_id(source_id)

\* the body of the for loop for the event read from the list, up to the
\* call of the linker
ProcessOne(read) ==
    /\ event' = IF read.source_name = ""
                THEN [read EXCEPT !.source_name =
                                    get_source_display_name(args.source_id)]
                ELSE read
    /\ IF args.skip_merging
        THEN /\ store' = session_add(store, event')
             /\ counts' = <<counts[1] + 1, counts[2]>>
             /\ idx' = idx + 1
             /\ UNCHANGED <<pc, cur, cands>>
        ELSE IF check_duplicate_before_insert(store, event') # {}
        THEN /\ \E existing \in check_duplicate_before_insert(store, event') :
                   store' = update_existing(store, existing, event')
             /\ counts' = <<counts[1], counts[2] + 1>>
             /\ idx' = idx + 1
             /\ UNCHANGED <<pc, cur, cands>>
        ELSE /\ store' = session_add(store, event')
             /\ counts' = <<counts[1] + 1, counts[2]>>
             /\ cur' = NextId(store)
             /\ cands' = cross_source_candidates(store', store'[cur'])
             /\ pc' = "link"
             /\ UNCHANGED idx

\* one pass through the for loop
ProcessEvent ==
    /\ pc = "loop"
    /\ idx <= args.length
    /\ \E read \in NewEvents(args.source_id) :
        /\ ~fill_source_name_raises(read, args.source_id)
        /\ ProcessOne(read)
    /\ UNCHANGED <<cfg, ev1, ev2, outs, phase, events, committed, sessions,
                   args>>

\* compare_source_priority on the rows id1 and id2 raises ValueError
compare_source_priority_raises(st, id1, id2) ==
    \/ unknown_display_name(st[id1].source_name)
    \/ unknown_display_name(st[id2].source_name)

\* one pass through the loop of check_and_process_cross_source_duplicates;
\* the result list of the query is visited in an order the query leaves open
LinkStep ==
    /\ pc = "link"
    /\ \E existing \in cands :
        /\ cands' = cands \ {existing}
        /\ IF are_events_cross_source_duplicate(store[cur], store[existing])
           THEN LET pair == compare_source_priority(store, cur, existing)
                IN  /\ ~compare_source_priority_raises(store, cur, existing)
                    /\ topmost_parent(store, pair[1],
                                      Cardinality(DOMAIN store)) # 0
                    /\ store' = process_cross_source_duplicate(store, cur,
                                                               existing)
           ELSE store' = store
    /\ UNCHANGED <<cfg, ev1, ev2, outs, phase, events, committed, sessions, pc,
                   args, idx, event, counts, cur>>

\* the loop of the linker is through: on to the next event
LinkDone ==
    /\ pc = "link"
    /\ cands = {}
    /\ pc' = "loop"
    /\ idx' = idx + 1
    /\ cur' = 0
    /\ UNCHANGED <<cfg, ev1, ev2, outs, phase, events, store, committed,
                   sessions, args, event, counts, cands>>

\* the for loop is through: the session commits and the counts are returned;
\* the locals of the call are gone
Finish ==
    /\ pc = "loop"
    /\ idx > args.length
    /\ pc' = "idle"
    /\ args' = NoArgs
    /\ idx' = 0
    /\ event' = BlankEvent
    /\ counts' = <<0, 0>>
    /\ committed' = store
    /\ UNCHANGED <<cfg, ev1, ev2, outs, phase, events, store, sessions, cur,
                   cands>>

Next ==
    \/ StartProcess
    \/ ProcessEvent
    \/ LinkStep
    \/ LinkDone
    \/ Finish

Spec == Init /\ [][Next]_vars

-----------------------------------------------------------------------------
(* scripts/helper/process_cross_source_duplicates.py: process_existing_events.
   The script has its own copy of process_cross_source_duplicate and of
   compare_source_priority, line for line those of new_event_handler.py. *)

\* the orders in which session.query(Event).all() can list the rows
QueryOrders(st) ==
    {order \in [1..Cardinality(DOMAIN st) -> DOMAIN st] :
        \A i, j \in DOMAIN order : i # j => order[i] # order[j]}

\* are_events_cross_source_duplicate for every two rows of the table.  The
\* script assigns parent_id only, which the classifier does not read, so
\* its verdicts are those on the rows as they were listed.
CrossSourceDuplicates(st) ==
    [id \in DOMAIN st, other \in DOMAIN st |->
        are_events_cross_source_duplicate(st[id], st[other])]

\* the inner loop (lines 75-81) for the event at row id, from position j on
RECURSIVE check_against_others(_, _, _, _, _)
check_against_others(st, id, order, j, duplicates) ==
    IF j > Len(order) THEN st
    ELSE IF order[j] = id
    THEN check_against_others(st, id, order, j + 1, duplicates)
    ELSE IF duplicates[id, order[j]]
    THEN check_against_others(
             process_cross_source_duplicate(st, id, order[j]), id, order,
             j + 1, duplicates)
    ELSE check_against_others(st, id, order, j + 1, duplicates)

\* the outer loop (lines 65-83) from position i on
RECURSIVE process_existing_events(_, _, _, _)
process_existing_events(st, order, i, duplicates) ==
    IF i > Len(order) THEN st
    ELSE IF st[order[i]].parent_id # None
    THEN process_existing_events(st, order, i + 1, duplicates)
    ELSE process_existing_events(
             check_against_others(st, order[i], order, 1, duplicates), order,
             i + 1, duplicates)

\* the pairs (event, other_event) of lines 70-80 whose call of
\* process_cross_source_duplicate would change the table as it is listed
PairsToLink(st) ==
    {pair \in (DOMAIN st) \X (DOMAIN st) :
        /\ pair[1] # pair[2]
        /\ st[pair[1]].parent_id = None
        /\ are_events_cross_source_duplicate(st[pair[1]], st[pair[2]])
        /\ process_cross_source_duplicate(st, pair[1], pair[2]) # st}

\* The script is run while no ingestion is under way.  Without a pair to
\* link every assignment of the run writes the value that is there, in
\* whatever order the rows are listed.
RunProcessExisting ==
    /\ pc = "idle"
    /\ store # <<>>
    /\ IF PairsToLink(store) = {}
       THEN store' = store
       ELSE LET duplicates == CrossSourceDuplicates(store)
            IN  store' \in
                    {process_existing_events(store, order, 1, duplicates) :
                        order \in QueryOrders(store)}
    /\ committed' = store'
    /\ UNCHANGED <<cfg, ev1, ev2, outs, phase, events, sessions, pc, args, idx,
                   event, counts, cur, cands>>

\* ingestion and runs of the script, one after the other in any order
NextLineage ==
    \/ Next
    \/ RunProcessExisting

SpecLineage == Init /\ [][NextLineage]_vars

-----------------------------------------------------------------------------
(* Properties of the lineage and of the insertion guard *)

\* the rows that hold a parent pointer, with the id they point to
ParentOf(st, id) == Val(st[id].parent_id)
HasParent(st, id) == id \in DOMAIN st /\ st[id].parent_id # None

\* the ids reached from the ids of `from` by following parent_id once
StepUp(st, from) == {ParentOf(st, id) : id \in {d \in from : HasParent(st, d)}}

\* the ids reached from `from` in one hop or more, at most k further rounds
RECURSIVE ReachedFrom(_, _, _)
ReachedFrom(st, reached, k) ==
    IF k = 0 \/ StepUp(st, reached) \subseteq reached THEN reached
    ELSE ReachedFrom(st, reached \cup StepUp(st, reached), k - 1)

Ancestors(st, id) ==
    ReachedFrom(st, StepUp(st, {id}), Cardinality(DOMAIN st) + 1)

Priority(st, id) ==
    SOURCES[get_source_id_by_display_name(st[id].source_name)].priority

\* the candidate a step of the linker's loop has just visited
Visited == CHOOSE id \in cands : id \notin cands'

LinkerVisits == pc = "link" /\ cands' # cands

\* the step runs process_cross_source_duplicate on a pair of unequal priority
LinkerLinks ==
    /\ LinkerVisits
    /\ store[cur].source_name # store[Visited].source_name
    /\ are_events_cross_source_duplicate(store[cur], store[Visited])
    /\ Priority(store, cur) # Priority(store, Visited)

HigherOfPair ==
    IF Priority(store, cur) > Priority(store, Visited) THEN cur ELSE Visited

LowerOfPair ==
    IF Priority(store, cur) > Priority(store, Visited) THEN Visited ELSE cur

\* C2: whatever process_new_events with its linker and the runs of
\* process_existing_events have done to a table that started empty, no event is its own ancestor, every parent pointer names a
\* row, and every event has a root among itself and its ancestors, so the
\* walk along parent_id ends after fewer hops than there are events.
C2_LineageAcyclic ==
    \A id \in DOMAIN store :
        /\ id \notin Ancestors(store, id)
        /\ Ancestors(store, id) \subseteq DOMAIN store
        /\ \E root \in {id} \cup Ancestors(store, id) :
              store[root].parent_id = None
        /\ Cardinality(Ancestors(store, id)) < Cardinality(DOMAIN store)

\* a lineage of two hops: child, parent, grandparent
C2_Witness ==
    \E id \in DOMAIN store :
        /\ HasParent(store, id)
        /\ HasParent(store, ParentOf(store, id))
        /\ Cardinality(Ancestors(store, id)) = 2

\* C8: when the linker finds the new root and a row of another source to be
\* duplicates of unequal priority, the lower one's parent_id is afterwards
\* the id of a row without parent that is the higher one or an ancestor of
\* it, and the two are still two rows of the same table.
C8_LinksLowerToTopmost ==
    [][LinkerLinks =>
        /\ HasParent(store', LowerOfPair)
        /\ ParentOf(store', LowerOfPair) \in
              {HigherOfPair} \cup Ancestors(store, HigherOfPair)
        /\ ParentOf(store', LowerOfPair) \in DOMAIN store
        /\ store[ParentOf(store', LowerOfPair)].parent_id = None
        /\ DOMAIN store' = DOMAIN store
        /\ store'[cur].id # store'[Visited].id]_vars

\* the new event was linked below a row of higher priority and then a row of
\* lower priority, no duplicate of that parent, was linked through the new
\* event to the same parent
C8_Witness ==
    /\ pc = "link"
    /\ \E a, b \in DOMAIN store \ (cands \cup {cur}) :
        /\ Priority(store, a) < Priority(store, cur)
        /\ Priority(store, cur) < Priority(store, b)
        /\ store[cur].parent_id = Some(b)
        /\ store[a].parent_id = Some(b)
        /\ store[b].parent_id = None
        /\ ~are_events_cross_source_duplicate(store[a], store[b])
        /\ ~are_events_cross_source_duplicate(store[b], store[a])

\* C9: a run of process_cross_source_duplicate adds and deletes no row and
\* changes no field of any row but parent_id, and parent_id only of the
\* lower-priority event of the pair.
C9_OnlyParentOfLower ==
    [][LinkerLinks =>
        /\ DOMAIN store' = DOMAIN store
        /\ \A id \in DOMAIN store :
              /\ store'[id] = [store[id] EXCEPT !.parent_id =
                                                  store'[id].parent_id]
              /\ id # LowerOfPair => store'[id] = store[id]
        /\ store'[HigherOfPair].parent_id = store[HigherOfPair].parent_id]_vars

\* the linker made a row its child of the new event, which is still a root,
\* and the child has kept the title it was scraped with
C9_Witness ==
    /\ pc = "link"
    /\ store[cur].parent_id = None
    /\ \E id \in DOMAIN store \ cands :
        /\ store[id].parent_id = Some(cur)
        /\ Priority(store, id) < Priority(store, cur)
        /\ store[id].title # store[cur].title
        /\ store[id].title = NewTitle(store[id].start_time)

\* the rows the guard accepts for an incoming event: same source, start
\* times at most the window apart, titles similar enough
GuardHits(st, new_event) ==
    {id \in DOMAIN st :
        /\ st[id].source_name = new_event.source_name
        /\ Abs(st[id].start_time - new_event.start_time) <= TIME_WINDOW_MINUTES
        /\ ~RatioBelow(calculate_title_similarity(new_event.title,
                                                  st[id].title),
                       TITLE_SIMILARITY_THRESHOLD)}

\* a pass of the for loop, without skip_merging, whose event the guard finds
GuardHitPass ==
    /\ pc = "loop"
    /\ idx <= args.length
    /\ ~args.skip_merging
    /\ idx' = idx + 1
    /\ GuardHits(store, event') # {}

\* C10: when the guard finds a row for the incoming event, the pass adds no
\* row, writes the values of the merge onto a row the guard accepts, leaves
\* the id of that row and all other rows as they were, and does not start
\* the linker.
C10_GuardHitUpdatesInPlace ==
    [][GuardHitPass =>
        /\ DOMAIN store' = DOMAIN store
        /\ \E existing \in GuardHits(store, event') :
              /\ [store'[existing] EXCEPT !.parent_id = None] =
                    [merge_events(store[existing], event')
                        EXCEPT !.parent_id = None]
              /\ store'[existing].id = store[existing].id
              /\ \A id \in DOMAIN store \ {existing} : store'[id] = store[id]
        /\ pc' = "loop"
        /\ cur' = cur
        /\ cands' = cands]_vars

\* an update was counted and a row holds the title of the later scrape with
\* the start time of the earlier one, below the parent it had before
C10_Witness ==
    /\ counts[2] >= 1
    /\ \E id \in DOMAIN store :
        /\ store[id].title = event.title
        /\ store[id].fetched_at = event.fetched_at
        /\ store[id].start_time < event.start_time
        /\ store[id].id = Some(id)
        /\ store[id].parent_id # None

-----------------------------------------------------------------------------
(* Specification SpecFail: process_new_events as the callers of the
   repository call it, with the passes of the for loop that raise *)

\* the source_id src/api/routes/brightdata.py passes; SOURCES has no entry
\* for it
FacebookGroupId == "Facebook (IFI-studenter)"

CallerIds == FeedIds \cup {FacebookGroupId}

StartProcessAny == StartProcessFrom(CallerIds)

\* An exception leaves the for loop: the session is rolled back
\* (db_core.py line 230) and process_new_events raises DatabaseError
\* (line 87); nothing is returned.
RaiseDatabaseError ==
    /\ store' = committed
    /\ pc' = "idle"
    /\ args' = NoArgs
    /\ idx' = 0
    /\ event' = BlankEvent
    /\ counts' = <<0, 0>>
    /\ cur' = 0
    /\ cands' = {}
    /\ UNCHANGED <<cfg, ev1, ev2, outs, phase, events, committed, sessions>>

\* a pass of the for loop in which get_source_display_name raises
RaiseInPass ==
    /\ pc = "loop"
    /\ idx <= args.length
    /\ \E read \in NewEvents(args.source_id) :
        fill_source_name_raises(read, args.source_id)
    /\ RaiseDatabaseError

\* a pass of the loop of the linker in which compare_source_priorities
\* raises
RaiseInLinker ==
    /\ pc = "link"
    /\ \E existing \in cands :
        /\ are_events_cross_source_duplicate(store[cur], store[existing])
        /\ compare_source_priority_raises(store, cur, existing)
    /\ RaiseDatabaseError

NextFail ==
    \/ StartProcessAny
    \/ ProcessEvent
    \/ RaiseInPass
    \/ LinkStep
    \/ RaiseInLinker
    \/ LinkDone
    \/ Finish

SpecFail == Init /\ [][NextFail]_vars

\* the for loop has events left, or the linker is at work for one
CallHasWorkLeft ==
    \/ pc = "loop" /\ idx <= args.length
    \/ pc = "link"

\* C11: when the processing of one event of the batch fails, the call goes
\* on with the events that remain (and ends by returning its counts): no
\* step of a call that still has events to process ends the call.
C11_FailureIsolated == [][CallHasWorkLeft => pc' # "idle"]_vars

-----------------------------------------------------------------------------
(* Specification SpecWalk: process_cross_source_duplicate, one hop of its
   while loop per step, on tables with any parent_id a row can hold *)

\* bounds of the model: rows of the table, hops the model follows
WalkRows == 3
MaxHops == 5

WalkSources == {"Peoply", "Navet"}

\* what parent_id can hold: no parent, a row of the table, or the id of a
\* row that is gone (WalkRows + 1)
WalkParents == {None} \cup {Some(id) : id \in 1..(WalkRows + 1)}

WalkStores ==
    {[id \in 1..WalkRows |->
        [BlankEvent EXCEPT !.id = Some(id), !.title = TitleB,
                           !.source_name = source_name[id],
                           !.parent_id = parent_id[id]]] :
        source_name \in [1..WalkRows -> WalkSources],
        parent_id \in [1..WalkRows -> WalkParents]}

InitWalk ==
    /\ cfg = DefaultCfg
    /\ ev1 = BlankEvent
    /\ ev2 = BlankEvent
    /\ outs = <<>>
    /\ phase = "walk"
    /\ events = <<>>
    /\ store \in WalkStores
    /\ committed = store
    /\ sessions = NoSessions
    /\ pc = "idle"
    /\ args = NoArgs
    /\ idx = 0
    /\ event = BlankEvent
    /\ counts = <<0, 0>>
    /\ cur = 0
    /\ cands = {}

\* lines 107-110: the call for two rows; cur is topmost_parent, cands holds
\* lower_priority_event, idx counts the hops
EnterWalk ==
    /\ pc = "idle"
    /\ \E event1, event2 \in DOMAIN store :
        /\ event1 # event2
        /\ cur' = compare_source_priority(store, event1, event2)[1]
        /\ cands' = {compare_source_priority(store, event1, event2)[2]}
    /\ pc' = "walk"
    /\ idx' = 0
    /\ UNCHANGED <<cfg, ev1, ev2, outs, phase, events, store, committed,
                   sessions, args, event, counts>>

\* lines 111-112: one pass of the while loop.  get() of an id without a row
\* is None; an id outside the table stands for it.
WalkHop ==
    /\ pc = "walk"
    /\ cur \in DOMAIN store
    /\ store[cur].parent_id # None
    /\ idx < MaxHops
    /\ cur' = Val(store[cur].parent_id)
    /\ idx' = idx + 1
    /\ UNCHANGED <<cfg, ev1, ev2, outs, phase, events, store, committed,
                   sessions, pc, args, event, counts, cands>>

\* line 111 on None: AttributeError
WalkRaise ==
    /\ pc = "walk"
    /\ cur \notin DOMAIN store
    /\ pc' = "raised"
    /\ UNCHANGED <<cfg, ev1, ev2, outs, phase, events, store, committed,
                   sessions, args, idx, event, counts, cur, cands>>

\* lines 113-115: the loop is left and the parent is assigned
WalkEnd ==
    /\ pc = "walk"
    /\ cur \in DOMAIN store
    /\ store[cur].parent_id = None
    /\ \E lower_priority_event \in cands :
        store' = assign_parent(store, lower_priority_event, cur)
    /\ pc' = "linked"
    /\ UNCHANGED <<cfg, ev1, ev2, outs, phase, events, committed, sessions,
                   args, idx, event, counts, cur, cands>>

NextWalk ==
    \/ EnterWalk
    \/ WalkHop
    \/ WalkRaise
    \/ WalkEnd

SpecWalk == InitWalk /\ [][NextWalk]_vars

\* C12: the ancestor walk of the linker is bounded for every table: it
\* never makes more hops than the table has rows (a walk that would, on a
\* cycle, is ended with an error instead).
C12_WalkBounded == pc = "walk" => idx <= Cardinality(DOMAIN store)

-----------------------------------------------------------------------------
(* Specification SpecPriority: compare_source_priorities called with two
   source names, then compare_source_priority with the two events that
   carry them *)

\* source names found on events: the display names of SOURCES and the names
\* the Facebook processors write
PriorityNames ==
    {SOURCES[id].name : id \in SourceIds}
        \cup {"Facebook (IFI-studenter)", "Facebook Events"}

PriorityEvents ==
    {[BlankEvent EXCEPT !.title = TitleB, !.start_time = s,
                        !.source_name = n] :
        s \in {0, TIME_WINDOW_MINUTES}, n \in PriorityNames}

InitPriority ==
    /\ cfg = DefaultCfg
    /\ ev1 \in PriorityEvents
    /\ ev2 \in PriorityEvents
    /\ outs = <<>>
    /\ phase = "start"
    /\ events = <<>>
    /\ StoreIdle

\* what a call of compare_source_priorities ends with: the value it
\* returns, or the exception get_source_id_by_display_name raises
compare_source_priorities_call(name1, name2) ==
    IF unknown_display_name(name1) \/ unknown_display_name(name2)
    THEN <<"raise", "ValueError">>
    ELSE <<"return", compare_source_priorities(name1, name2)>>

\* what a call of compare_source_priority ends with; the tuple returned is
\* given by the positions (1 for event1, 2 for event2) of its elements
compare_source_priority_call(event1, event2) ==
    IF compare_source_priority_raises(<<event1, event2>>, 1, 2)
    THEN <<"raise", "ValueError">>
    ELSE <<"return", compare_source_priority(<<event1, event2>>, 1, 2)>>

ComparePriorities ==
    /\ phase = "start"
    /\ outs' = <<compare_source_priorities_call(ev1.source_name,
                                                ev2.source_name)>>
    /\ phase' = "names"
    /\ UNCHANGED <<cfg, ev1, ev2, events>>
    /\ UNCHANGED storeVars

ComparePriority ==
    /\ phase = "names"
    /\ outs' = Append(outs, compare_source_priority_call(ev1, ev2))
    /\ phase' = "events"
    /\ UNCHANGED <<cfg, ev1, ev2, events>>
    /\ UNCHANGED storeVars

NextPriority ==
    \/ ComparePriorities
    \/ ComparePriority

SpecPriority == InitPriority /\ [][NextPriority]_vars

\* the priority the table gives a source name, 0 for a name without entry
PriorityOrZero(name) ==
    IF \E id \in SourceIds : SOURCES[id].name = name
    THEN SOURCES[CHOOSE id \in SourceIds : SOURCES[id].name = name].priority
    ELSE 0

Sign(n) == IF n > 0 THEN 1 ELSE IF n < 0 THEN -1 ELSE 0

\* C13: compare_source_priorities returns a value of {-1, 0, 1} for every
\* pair of source names, the sign of the difference of their priorities
\* with a name that is not in the table counted as priority 0; it raises
\* nothing.
C13_PrioritiesTotal ==
    phase # "start" =>
        /\ outs[1][1] = "return"
        /\ outs[1][2] = Sign(PriorityOrZero(ev1.source_name)
                                - PriorityOrZero(ev2.source_name))

\* C14: a call of compare_source_priority(event1, event2) that returns
\* gives (event1, event2) when the priority of event1's source is greater
\* than or equal to that of event2's, and (event2, event1) otherwise: a tie
\* keeps event1 first, and the result is a permutation of the two inputs.
C14_PriorityOrdering ==
    (phase = "events" /\ outs[2][1] = "return") =>
        /\ outs[2][2] =
              IF PriorityOrZero(ev1.source_name)
                    >= PriorityOrZero(ev2.source_name)
              THEN <<1, 2>> ELSE <<2, 1>>
        /\ {outs[2][2][1], outs[2][2][2]} = {1, 2}

\* a call on two different events of one source has returned
C14_Witness ==
    /\ phase = "events"
    /\ outs[2] = <<"return", <<1, 2>>>>
    /\ ev1.source_name = ev2.source_name
    /\ ev1 # ev2

-----------------------------------------------------------------------------
(* Specification SpecRace: two calls of process_new_events, each with one
   event and in a db.session() of its own, on one table.  A session reads
   the committed rows and the rows it has written itself; its writes reach
   the table when db_core.py line 228 commits. *)

Runs == {1, 2}

\* a run before process_new_events is called
ClosedSession ==
    [pc |-> "closed", event |-> BlankEvent, pending |-> <<>>,
     found |-> "unread", cur |-> 0, cands |-> {}]

\* rows of `over` laid over those of `under`
Overlay(under, over) ==
    [id \in DOMAIN under \cup DOMAIN over |->
        IF id \in DOMAIN over THEN over[id] ELSE under[id]]

\* the rows of after that are not rows of before
Written(before, after) ==
    [id \in {i \in DOMAIN after :
                i \notin DOMAIN before \/ after[i] # before[i]} |-> after[id]]

\* a view in which a session reads what other sessions have not committed
SharedView(ss, cm, run) ==
    LET RECURSIVE all_pending(_)
        all_pending(rs) ==
            IF rs = {} THEN cm
            ELSE LET r == CHOOSE r \in rs : TRUE
                 IN  Overlay(all_pending(rs \ {r}), ss[r].pending)
    IN  Overlay(all_pending(DOMAIN ss \ {run}), ss[run].pending)

\* the table as the session of run sees it: the committed rows and its own
\* pending writes
SessionView(ss, cm, run) ==
    Overlay(cm, ss[run].pending)

\* the id the table's sequence hands to the next INSERT of any session
SequenceNextId(ss, cm) ==
    LET used == DOMAIN cm \cup UNION {DOMAIN ss[r].pending : r \in DOMAIN ss}
    IN  IF used = {} THEN 1
        ELSE (CHOOSE m \in used : \A k \in used : k <= m) + 1

InitRace ==
    /\ cfg = DefaultCfg
    /\ ev1 = BlankEvent
    /\ ev2 = BlankEvent
    /\ outs = <<>>
    /\ phase = "race"
    /\ events = <<>>
    /\ store = <<>>
    /\ committed = <<>>
    /\ sessions = [run \in Runs |-> ClosedSession]
    /\ pc = "idle"
    /\ args = NoArgs
    /\ idx = 0
    /\ event = BlankEvent
    /\ counts = <<0, 0>>
    /\ cur = 0
    /\ cands = {}

\* lines 49-53 of the call process_new_events([read], source_id)
OpenRun(run) ==
    /\ sessions[run].pc = "closed"
    /\ \E source_id \in FeedIds :
        \E read \in NewEvents(source_id) :
            sessions' = [sessions EXCEPT ![run] =
                [@ EXCEPT !.pc = "guard",
                          !.event = [read EXCEPT !.source_name =
                                        get_source_display_name(source_id)]]]
    /\ UNCHANGED <<cfg, ev1, ev2, outs, phase, events, store, committed, pc,
                   args, idx, event, counts, cur, cands>>

\* lines 61-76: the guard is read and the event is merged into the row found
\* or added
GuardAndWrite(run) ==
    /\ sessions[run].pc = "guard"
    /\ LET view == SessionView(sessions, committed, run)
           new_event == sessions[run].event
           found == check_duplicate_before_insert(view, new_event)
           new_id == SequenceNextId(sessions, committed)
           added == Overlay(view, [id \in {new_id} |->
                                    [new_event EXCEPT !.id = Some(new_id)]])
       IN  IF found # {}
           THEN \E existing \in found :
                   sessions' = [sessions EXCEPT ![run] =
                       [@ EXCEPT !.pc = "commit", !.found = "hit",
                                 !.pending = Overlay(@,
                                     Written(view, update_existing(
                                         view, existing, new_event)))]]
           ELSE sessions' = [sessions EXCEPT ![run] =
                   [@ EXCEPT !.pc = "link", !.found = "miss",
                             !.pending = Overlay(@, Written(view, added)),
                             !.cur = new_id,
                             !.cands = cross_source_candidates(
                                           added, added[new_id])]]
    /\ UNCHANGED <<cfg, ev1, ev2, outs, phase, events, store, committed, pc,
                   args, idx, event, counts, cur, cands>>

\* one pass through the loop of the linker in the session of run
LinkRun(run) ==
    /\ sessions[run].pc = "link"
    /\ LET view == SessionView(sessions, committed, run)
           new_id == sessions[run].cur
       IN  \E existing \in sessions[run].cands :
             IF are_events_cross_source_duplicate(view[new_id],
                                                  view[existing])
             THEN /\ topmost_parent(
                         view,
                         compare_source_priority(view, new_id, existing)[1],
                         Cardinality(DOMAIN view)) # 0
                  /\ sessions' = [sessions EXCEPT ![run] =
                        [@ EXCEPT !.cands = @ \ {existing},
                                  !.pending = Overlay(@,
                                      Written(view,
                                          process_cross_source_duplicate(
                                              view, new_id, existing)))]]
             ELSE sessions' = [sessions EXCEPT ![run] =
                        [@ EXCEPT !.cands = @ \ {existing}]]
    /\ UNCHANGED <<cfg, ev1, ev2, outs, phase, events, store, committed, pc,
                   args, idx, event, counts, cur, cands>>

\* the loop of the linker is through
LinkDoneRun(run) ==
    /\ sessions[run].pc = "link"
    /\ sessions[run].cands = {}
    /\ sessions' = [sessions EXCEPT ![run] = [@ EXCEPT !.pc = "commit"]]
    /\ UNCHANGED <<cfg, ev1, ev2, outs, phase, events, store, committed, pc,
                   args, idx, event, counts, cur, cands>>

\* db_core.py line 228: the writes of the session reach the table
CommitRun(run) ==
    /\ sessions[run].pc = "commit"
    /\ committed' = SessionView(sessions, committed, run)
    /\ sessions' = [sessions EXCEPT ![run] =
                       [@ EXCEPT !.pc = "done", !.pending = <<>>]]
    /\ UNCHANGED <<cfg, ev1, ev2, outs, phase, events, store, pc, args, idx,
                   event, counts, cur, cands>>

NextRace ==
    \/ \E run \in Runs : OpenRun(run)
    \/ \E run \in Runs : GuardAndWrite(run)
    \/ \E run \in Runs : LinkRun(run)
    \/ \E run \in Runs : LinkDoneRun(run)
    \/ \E run \in Runs : CommitRun(run)

SpecRace == InitRace /\ [][NextRace]_vars

\* the run has read the guard and has not committed
Uncommitted(run) == sessions[run].pc \in {"link", "commit"}

\* C15: nothing keeps the two runs apart.  When both have read the guard
\* before either has committed, both reads found no row and both runs hold
\* a row of their own to insert, whatever the two events are; and a run
\* that is at its guard or at its commit can always take that step.
C15_BothGuardsMiss ==
    /\ (\A run \in Runs : Uncommitted(run)) =>
          \A run \in Runs :
              /\ sessions[run].found = "miss"
              /\ sessions[run].cur \in DOMAIN sessions[run].pending
    /\ \A run \in Runs :
          /\ sessions[run].pc = "guard" => ENABLED GuardAndWrite(run)
          /\ sessions[run].pc = "commit" => ENABLED CommitRun(run)

\* both runs have committed; each had found no row, and the table holds the
\* two events, which the classifier takes for duplicates, as two rows
C15_Witness ==
    /\ \A run \in Runs :
          sessions[run].pc = "done" /\ sessions[run].found = "miss"
    /\ Cardinality(DOMAIN committed) = 2
    /\ \A id, other \in DOMAIN committed :
          are_events_duplicate(committed[id], committed[other])

-----------------------------------------------------------------------------
(* Specification SpecReplace: db_maintenance.py, deduplicate_database, one
   statement per step, with the failure of any statement after the query *)

\* bound of the model: rows in the table before the call
MaxTable == 3

TableTitles == {TitleB, TitleE}
TableTimes == {0, TIME_WINDOW_MINUTES \div 2}
TableSources == {"Navet", "Peoply"}

Tables ==
    UNION {{[id \in 1..n |->
                [BlankEvent EXCEPT !.id = Some(id), !.title = ts[id],
                                   !.start_time = ss[id],
                                   !.source_name = ns[id]]] :
              ts \in [1..n -> TableTitles], ss \in [1..n -> TableTimes],
              ns \in [1..n -> TableSources]} : n \in 0..MaxTable}

\* lines 64-65 left out: every row is in scope
InScopeUnfiltered(row, source_name) == TRUE

\* the filter of line 65; without source_name every row is in scope
InScope(row, source_name) ==
    source_name = "" \/ row.source_name = source_name

\* session.rollback() that leaves the flushed statements in the table
keep_flushed(cm, st) == st

\* db_core.py line 230, session.rollback(): the table is what the last
\* commit left
rollback(cm, st) == cm

InitReplace ==
    /\ cfg = DefaultCfg
    /\ ev1 = BlankEvent
    /\ ev2 = BlankEvent
    /\ outs = <<>>
    /\ phase = "replace"
    /\ events = <<>>
    /\ committed \in Tables
    /\ store = committed
    /\ sessions = NoSessions
    /\ pc = "idle"
    /\ args = NoArgs
    /\ idx = 0
    /\ event = BlankEvent
    /\ counts = <<0, 0>>
    /\ cur = 0
    /\ cands = {}

\* lines 61-75: the rows in scope are listed, in an order the query leaves
\* open, and merged in memory; without rows or without a merge the call
\* returns and the session commits what it read
QueryAndMerge ==
    /\ pc = "idle"
    /\ \E source_name \in {""} \cup TableSources :
        LET scope == {id \in DOMAIN store : InScope(store[id], source_name)}
        IN  \E order \in QueryOrders([id \in scope |-> store[id]]) :
              /\ args' = [NoArgs EXCEPT !.source_id = source_name]
              /\ events' = [i \in DOMAIN order |-> store[order[i]]]
              /\ outs' = IF scope = {} THEN <<>>
                         ELSE <<find_and_merge_duplicates(events')>>
              /\ pc' = IF scope = {} THEN "returned"
                       ELSE IF outs'[1].duplicate_count > 0 THEN "delete"
                       ELSE "returned"
    /\ UNCHANGED <<cfg, ev1, ev2, phase, store, committed, sessions, idx,
                   event, counts, cur, cands>>

\* line 77, query.delete(): the rows in scope leave the table of the session
DeleteRows ==
    /\ pc = "delete"
    /\ store' = [id \in {i \in DOMAIN store :
                            ~InScope(store[i], args.source_id)} |->
                    store[id]]
    /\ pc' = "add"
    /\ idx' = 1
    /\ UNCHANGED <<cfg, ev1, ev2, outs, phase, events, committed, sessions,
                   args, event, counts, cur, cands>>

\* lines 78-79: one pass of the loop over unique_events
AddMerged ==
    /\ pc = "add"
    /\ idx <= Len(outs[1].merged_events)
    /\ LET merged == outs[1].merged_events[idx]
       IN  store' = [id \in DOMAIN store \cup {Val(merged.id)} |->
                        IF id = Val(merged.id) THEN merged ELSE store[id]]
    /\ idx' = idx + 1
    /\ UNCHANGED <<cfg, ev1, ev2, outs, phase, events, committed, sessions,
                   pc, args, event, counts, cur, cands>>

\* line 83 and db_core.py line 228: the with-block is left and the session
\* commits
CommitReplace ==
    /\ pc = "add"
    /\ idx > Len(outs[1].merged_events)
    /\ committed' = store
    /\ pc' = "returned"
    /\ UNCHANGED <<cfg, ev1, ev2, outs, phase, events, store, sessions, args,
                   idx, event, counts, cur, cands>>

\* a statement after the query raises (the delete, an add or the commit):
\* db_core.py lines 229-231 roll back and line 87 raises DatabaseError
FailReplace ==
    /\ pc \in {"delete", "add"}
    /\ committed' = rollback(committed, store)
    /\ store' = committed'
    /\ pc' = "raised"
    /\ UNCHANGED <<cfg, ev1, ev2, outs, phase, events, sessions, args, idx,
                   event, counts, cur, cands>>

NextReplace ==
    \/ QueryAndMerge
    \/ DeleteRows
    \/ AddMerged
    \/ CommitReplace
    \/ FailReplace

SpecReplace == InitReplace /\ [][NextReplace]_vars

\* the table with its rows in scope replaced by the merged events
Replaced ==
    LET kept == {id \in DOMAIN committed :
                    ~InScope(committed[id], args.source_id)}
        merged == {outs[1].merged_events[i] :
                      i \in DOMAIN outs[1].merged_events}
    IN  [id \in kept \cup {Val(m.id) : m \in merged} |->
            IF id \in kept THEN committed[id]
            ELSE CHOOSE m \in merged : Val(m.id) = id]

\* C16: the replacement is atomic.  A step of deduplicate_database leaves
\* the committed table as it was, or replaces its rows in scope by exactly
\* the merged events; after a failure the session is back at the committed
\* table, which then still holds every row that was listed.
C16_AtomicReplacement ==
    [][/\ \/ committed' = committed
          \/ pc = "add" /\ pc' = "returned" /\ committed' = Replaced
       /\ pc' = "raised" =>
             /\ committed' = committed
             /\ store' = committed
             /\ \A i \in DOMAIN events :
                   committed'[Val(events[i].id)] = events[i]]_vars

\* the call has raised after the delete and after at least one add, with
\* rows that had been merged: the table holds the old rows
C16_Witness ==
    /\ phase = "replace"
    /\ pc = "raised"
    /\ idx > 1
    /\ Len(outs[1].merged_events) < Len(events)
    /\ store = committed
    /\ \A i \in DOMAIN events : committed[Val(events[i].id)] = events[i]

-----------------------------------------------------------------------------
(* Further properties of merge_events, checked under SpecMerge *)

\* end_time is not before start_time, where there is an end_time
EndsAfterStart(e) == e.end_time # None => Val(e.end_time) >= e.start_time

\* C17: the result of merge_events has the earlier of the two start times
\* and, when both events have an end time, the later of the two; with one
\* end time it has that one, with none it has none.  So a result of two
\* events that end after they start ends after it starts.
C17_MergedTimeRange ==
    \A k \in 1..Len(outs) :
        LET a == outs[k].event1
            b == outs[k].event2
            merged == outs[k].result
        IN  /\ merged.start_time \in {a.start_time, b.start_time}
            /\ merged.start_time <= a.start_time
            /\ merged.start_time <= b.start_time
            /\ (a.end_time # None /\ b.end_time # None) =>
                  /\ merged.end_time \in {a.end_time, b.end_time}
                  /\ Val(merged.end_time) >= Val(a.end_time)
                  /\ Val(merged.end_time) >= Val(b.end_time)
            /\ (a.end_time # None /\ b.end_time = None) =>
                  merged.end_time = a.end_time
            /\ (a.end_time = None /\ b.end_time # None) =>
                  merged.end_time = b.end_time
            /\ (a.end_time = None /\ b.end_time = None) =>
                  merged.end_time = None
            /\ (EndsAfterStart(a) /\ EndsAfterStart(b)) =>
                  EndsAfterStart(merged)

\* the base of the merge starts later and ends earlier than the other event:
\* the result has the start and the end of the other event
C17_Witness ==
    /\ Len(outs) >= 1
    /\ ~BaseIsEvent2(outs[1].event1, outs[1].event2)
    /\ outs[1].event1.end_time # None
    /\ outs[1].event2.end_time # None
    /\ outs[1].event2.start_time < outs[1].event1.start_time
    /\ Val(outs[1].event2.end_time) > Val(outs[1].event1.end_time)
    /\ outs[1].result.start_time = outs[1].event2.start_time
    /\ outs[1].result.end_time = outs[1].event2.end_time

\* the fields whose strategy is a minimum, a maximum or the id
SameDeterministicFields(e, f) ==
    /\ e.id = f.id
    /\ e.start_time = f.start_time
    /\ e.end_time = f.end_time
    /\ e.created_at = f.created_at
    /\ e.registration_opens = f.registration_opens

\* C18: merging the result of merge_events(a, b) with b again gives the id,
\* start_time, end_time, created_at and registration_opens of the first
\* result: with b as it was handed to the first call, with b as the first
\* call left it (b is the result itself when it was the base), and in the
\* second of two calls in a row when a was the base of the first.
C18_MergeAgainKeepsFields ==
    /\ \A k \in 1..Len(outs) :
          LET b == outs[k].event2
              merged == outs[k].result
              b_after == IF BaseIsEvent2(outs[k].event1, b) THEN merged ELSE b
          IN  /\ SameDeterministicFields(merge_events(merged, b), merged)
              /\ SameDeterministicFields(merge_events(merged, b_after),
                                         merged)
    /\ (Len(outs) >= 2 /\ ~BaseIsEvent2(outs[1].event1, outs[1].event2)) =>
          /\ outs[2].event1 = outs[1].result
          /\ outs[2].event2 = outs[1].event2
          /\ SameDeterministicFields(outs[2].result, outs[1].result)

\* two calls in a row with a the base of the first; b starts earlier, ends
\* later and was created earlier than a, and the second result has the
\* times of the first
C18_Witness ==
    /\ Len(outs) >= 2
    /\ ~BaseIsEvent2(outs[1].event1, outs[1].event2)
    /\ outs[1].event2.start_time < outs[1].event1.start_time
    /\ outs[1].event1.end_time # None
    /\ outs[1].event2.end_time # None
    /\ Val(outs[1].event2.end_time) > Val(outs[1].event1.end_time)
    /\ outs[1].event1.created_at # None
    /\ outs[1].event2.created_at # None
    /\ Val(outs[1].event2.created_at) < Val(outs[1].event1.created_at)
    /\ outs[2].event1 = outs[1].result
    /\ SameDeterministicFields(outs[2].result, outs[1].result)

-----------------------------------------------------------------------------
(* Further properties of the linker, checked under Spec *)

\* C19: first link wins.  A row that has a parent keeps it through every
\* pass of the linker that runs for a freshly added event (the row cur),
\* also when that event is a duplicate of the row from a source of higher
\* priority.
C19_FirstLinkWins ==
    [][pc = "link" =>
          \A id \in DOMAIN store \ {cur} :
              store[id].parent_id # None =>
                  store'[id].parent_id = store[id].parent_id]_vars

-----------------------------------------------------------------------------
(* Specification SpecRetry: process_new_events(events, source_id) called on
   a table an earlier call has left, and called again by its caller with
   the same events *)

\* the tables a call with one event leaves when it starts on the empty one
RetryTables ==
    {<<>>} \cup
    {session_add(<<>>, [read EXCEPT !.source_name =
                            get_source_display_name(source_id)]) :
        source_id \in FeedIds, read \in UNION {NewEvents(f) : f \in FeedIds}}

InitRetry ==
    /\ cfg = DefaultCfg
    /\ ev1 = BlankEvent
    /\ ev2 = BlankEvent
    /\ outs = <<>>
    /\ phase = "retry"
    /\ events = <<>>
    /\ store \in RetryTables
    /\ committed = store
    /\ sessions = NoSessions
    /\ pc = "idle"
    /\ args = NoArgs
    /\ idx = 0
    /\ event = BlankEvent
    /\ counts = <<0, 0>>
    /\ cur = 0
    /\ cands = {}

\* the first call: lines 41-49 with a list of one to MaxEvents events and
\* skip_merging left at its default
StartBatch ==
    /\ pc = "idle"
    /\ events = <<>>
    /\ \E source_id \in FeedIds, n \in 1..MaxEvents :
        /\ events' \in [1..n -> NewEvents(source_id)]
        /\ args' = [source_id |-> source_id, skip_merging |-> FALSE,
                    length |-> n]
    /\ idx' = 1
    /\ pc' = "loop"
    /\ UNCHANGED <<cfg, ev1, ev2, outs, phase, store, committed, sessions,
                   event, counts, cur, cands>>

\* one pass through the for loop, for the event of the list the loop is at
ProcessListed ==
    /\ pc = "loop"
    /\ idx <= args.length
    /\ ProcessOne(events[idx])
    /\ UNCHANGED <<cfg, ev1, ev2, outs, phase, events, committed, sessions,
                   args>>

\* lines 82-83: the session commits and the caller receives the counts; it
\* keeps the arguments of its call
ReturnCounts ==
    /\ pc = "loop"
    /\ idx > args.length
    /\ outs' = Append(outs, counts)
    /\ committed' = store
    /\ pc' = "idle"
    /\ idx' = 0
    /\ event' = BlankEvent
    /\ counts' = <<0, 0>>
    /\ UNCHANGED <<cfg, ev1, ev2, phase, events, store, sessions, args, cur,
                   cands>>

\* the caller calls process_new_events again with the arguments of its
\* first call
Retry ==
    /\ pc = "idle"
    /\ Len(outs) = 1
    /\ idx' = 1
    /\ pc' = "loop"
    /\ UNCHANGED <<cfg, ev1, ev2, outs, phase, events, store, committed,
                   sessions, args, event, counts, cur, cands>>

NextRetry ==
    \/ StartBatch
    \/ ProcessListed
    \/ LinkStep
    \/ LinkDone
    \/ ReturnCounts
    \/ Retry

SpecRetry == InitRetry /\ [][NextRetry]_vars

\* C20: a second call with the same batch, after the first has processed
\* all of it, adds no row: while it runs and when it has returned the table
\* has the rows the first call committed, each with its id, start_time,
\* end_time, created_at and registration_opens, and its count of new events
\* is 0.
C20_RetryAddsNothing ==
    /\ Len(outs) = 1 =>
          /\ DOMAIN store = DOMAIN committed
          /\ \A id \in DOMAIN store :
                SameDeterministicFields(store[id], committed[id])
    /\ Len(outs) = 2 => outs[2][1] = 0

-----------------------------------------------------------------------------
(* Further properties of deduplicate_database, checked under SpecReplace *)

\* C21: _find_and_merge_duplicates of the empty list is the empty list with
\* a count of 0; and a call of deduplicate_database whose query lists no
\* event returns at once: nothing is merged, and neither the table of the
\* session nor the committed table changes.
C21_EmptyInput ==
    [][/\ find_and_merge_duplicates(<<>>) =
              [merged_events |-> <<>>, duplicate_count |-> 0]
       /\ (pc = "idle" /\ pc' # "idle" /\ events' = <<>>) =>
              /\ pc' = "returned"
              /\ outs' = <<>>
              /\ store' = store
              /\ committed' = committed]_vars

\* the call has returned from a table with rows, none of them in its scope
C21_Witness ==
    /\ phase = "replace"
    /\ pc = "returned"
    /\ events = <<>>
    /\ outs = <<>>
    /\ args.source_id # ""
    /\ committed # <<>>
    /\ store = committed

-----------------------------------------------------------------------------
(* The base of merge_events, checked under SpecMerge *)

\* x has a fetched_at and it is strictly later than the one of y, or y has none
FetchedLater(x, y) ==
    /\ x.fetched_at # None
    /\ y.fetched_at = None \/ Val(x.fetched_at) > Val(y.fetched_at)

-----------------------------------------------------------------------------
(* Specification SpecAttempt: one call of a function decorated with
   @with_retry() (operations.py lines 21-71), one attempt of the for loop of
   the wrapper after the other.  outs is the log of the attempts made. *)

\* operations.py line 22
max_attempts == 3

\* operations.py line 25: the exception types the wrapper catches
exceptions == {"OperationalError"}

\* what a statement of a body raises: the two errors of sqlalchemy.exc the
\* module imports, and the ValueError of get_source_display_name
BodyExceptions == {"OperationalError", "IntegrityError", "ValueError"}

\* the two decorated functions, whose body is a try block with
\* `except Exception as e: raise DatabaseError(...) from e`
CatchingFunctions == {"process_new_events", "deduplicate_database"}

\* the exception that leaves the decorated function when a statement of its
\* body raises: new_event_handler.py lines 85-87 and db_maintenance.py lines
\* 85-87 turn every exception into DatabaseError; "func" is a callable
\* without a handler of its own
LeavesAs(func, raised) ==
    IF func \in CatchingFunctions THEN "DatabaseError" ELSE raised

\* one entry of the log: the attempt of func, what its body raised ("" when
\* it returned) and what left the function
Attempt(func, raised) ==
    [func |-> func, raised |-> raised,
     left |-> IF raised = "" THEN "" ELSE LeavesAs(func, raised)]

LastAttempt == outs[Len(outs)]

\* the tables a call starts on
AttemptTables ==
    RetryTables \cup {t \in Tables : Cardinality(DOMAIN t) = 2}

InitAttempt ==
    /\ cfg = DefaultCfg
    /\ ev1 = BlankEvent
    /\ ev2 = BlankEvent
    /\ outs = <<>>
    /\ phase = "attempt"
    /\ events = <<>>
    /\ store \in AttemptTables
    /\ committed = store
    /\ sessions = NoSessions
    /\ pc = "idle"
    /\ args = NoArgs
    /\ idx = 0
    /\ event = BlankEvent
    /\ counts = <<0, 0>>
    /\ cur = 0
    /\ cands = {}

\* the wrapper of process_new_events is called: first pass of its loop,
\* func(*args, **kwargs) at line 48
CallProcess ==
    /\ outs = <<>>
    /\ StartBatch

\* process_new_events returns its counts at line 83 and the wrapper returns
\* them at line 48
ProcessReturns ==
    /\ phase = "attempt"
    /\ pc = "loop"
    /\ idx > args.length
    /\ outs' = Append(outs, Attempt("process_new_events", ""))
    /\ committed' = store
    /\ pc' = "returned"
    /\ UNCHANGED <<cfg, ev1, ev2, phase, events, store, sessions, args, idx,
                   event, counts, cur, cands>>

\* a statement inside the session block of process_new_events raises: the
\* session is rolled back (db_core.py line 230) and the exception leaves the
\* function as the handler of lines 85-87 makes it
ProcessRaises ==
    /\ phase = "attempt"
    /\ pc \in {"loop", "link"}
    /\ \E raised \in BodyExceptions :
        outs' = Append(outs, Attempt("process_new_events", raised))
    /\ store' = rollback(committed, store)
    /\ pc' = "except"
    /\ idx' = 0
    /\ event' = BlankEvent
    /\ counts' = <<0, 0>>
    /\ cur' = 0
    /\ cands' = {}
    /\ UNCHANGED <<cfg, ev1, ev2, phase, events, committed, sessions, args>>

\* the table deduplicate_database(source_name) commits when its query lists
\* the rows in scope in this order (db_maintenance.py lines 63-83)
deduplicated(st, source_name, order) ==
    LET found == find_and_merge_duplicates(
                     [i \in DOMAIN order |-> st[order[i]]])
        merged == {found.merged_events[i] : i \in DOMAIN found.merged_events}
        kept == {id \in DOMAIN st : ~InScope(st[id], source_name)}
    IN  IF found.duplicate_count = 0 THEN st
        ELSE [id \in kept \cup {Val(m.id) : m \in merged} |->
                 IF id \in kept THEN st[id]
                 ELSE CHOOSE m \in merged : Val(m.id) = id]

\* one attempt of deduplicate_database as a whole: it returns with the
\* replacement committed, or a statement of its body raises, the session is
\* rolled back and the handler of lines 85-87 raises
AttemptDeduplicate ==
    /\ phase = "attempt"
    /\ \/ pc = "idle" /\ outs = <<>> /\ events = <<>>
       \/ pc = "call" /\ LastAttempt.func = "deduplicate_database"
    /\ \E source_name \in IF pc = "call" THEN {args.source_id}
                          ELSE {""} \cup TableSources :
        LET scope == {id \in DOMAIN store : InScope(store[id], source_name)}
        IN  /\ args' = [NoArgs EXCEPT !.source_id = source_name]
            /\ \/ /\ \E order \in QueryOrders([id \in scope |-> store[id]]) :
                        store' = deduplicated(store, source_name, order)
                  /\ committed' = store'
                  /\ outs' = Append(outs, Attempt("deduplicate_database", ""))
                  /\ pc' = "returned"
               \/ /\ \E raised \in BodyExceptions :
                        outs' = Append(outs, Attempt("deduplicate_database",
                                                     raised))
                  /\ pc' = "except"
                  /\ UNCHANGED <<store, committed>>
    /\ UNCHANGED <<cfg, ev1, ev2, phase, events, sessions, idx, event, counts,
                   cur, cands>>

\* one attempt of a decorated callable that handles no exception itself:
\* what its body raises is what the wrapper sees
AttemptFunc ==
    /\ phase = "attempt"
    /\ \/ pc = "idle" /\ outs = <<>> /\ events = <<>>
       \/ pc = "call" /\ LastAttempt.func = "func"
    /\ \/ /\ outs' = Append(outs, Attempt("func", ""))
          /\ pc' = "returned"
       \/ /\ \E raised \in BodyExceptions :
                outs' = Append(outs, Attempt("func", raised))
          /\ pc' = "except"
    /\ UNCHANGED <<cfg, ev1, ev2, phase, events, store, committed, sessions,
                   args, idx, event, counts, cur, cands>>

\* lines 49-64: the exception is one of `exceptions` and attempts are left:
\* the wrapper sleeps and the loop calls func with the same arguments
RetryAttempt ==
    /\ phase = "attempt"
    /\ pc = "except"
    /\ LastAttempt.left \in exceptions
    /\ Len(outs) # max_attempts
    /\ IF LastAttempt.func = "process_new_events"
       THEN pc' = "loop" /\ idx' = 1
       ELSE pc' = "call" /\ idx' = idx
    /\ UNCHANGED <<cfg, ev1, ev2, outs, phase, events, store, committed,
                   sessions, args, event, counts, cur, cands>>

\* lines 51-55: attempt + 1 == max_attempts, the wrapper raises the exception
RaiseFinal ==
    /\ phase = "attempt"
    /\ pc = "except"
    /\ LastAttempt.left \in exceptions
    /\ Len(outs) = max_attempts
    /\ pc' = "raised"
    /\ UNCHANGED <<cfg, ev1, ev2, outs, phase, events, store, committed,
                   sessions, args, idx, event, counts, cur, cands>>

\* the exception is none of `exceptions`: the except clause of line 49 does
\* not catch it and it leaves the wrapper
RaiseUncaught ==
    /\ phase = "attempt"
    /\ pc = "except"
    /\ LastAttempt.left \notin exceptions
    /\ pc' = "raised"
    /\ UNCHANGED <<cfg, ev1, ev2, outs, phase, events, store, committed,
                   sessions, args, idx, event, counts, cur, cands>>

NextAttempt ==
    \/ CallProcess
    \/ ProcessListed
    \/ LinkStep
    \/ LinkDone
    \/ ProcessReturns
    \/ ProcessRaises
    \/ AttemptDeduplicate
    \/ AttemptFunc
    \/ RetryAttempt
    \/ RaiseFinal
    \/ RaiseUncaught

SpecAttempt == InitAttempt /\ [][NextAttempt]_vars

\* C23: a call of process_new_events or deduplicate_database that raises
\* because its body failed with OperationalError has made max_attempts
\* attempts; one that raises for an exception of another type made attempts
\* before only for OperationalError.
C23_RetriedOnOperationalError ==
    (pc = "raised" /\ LastAttempt.func \in CatchingFunctions) =>
        /\ LastAttempt.raised = "OperationalError" =>
              Len(outs) = max_attempts
        /\ \A k \in 1..(Len(outs) - 1) : outs[k].raised = "OperationalError"

-----------------------------------------------------------------------------
(* Specification SpecGuarded: calls of process_new_events one after the
   other on a table that starts empty, each with skip_merging left false *)

StartGuarded ==
    /\ StartProcessFrom(FeedIds)
    /\ ~args'.skip_merging

NextGuarded ==
    \/ StartGuarded
    \/ ProcessEvent
    \/ LinkStep
    \/ LinkDone
    \/ Finish

SpecGuarded == Init /\ [][NextGuarded]_vars

\* C24: between two calls no two rows of the table with the same source name
\* are duplicates of each other, as are_events_duplicate classifies them in
\* either argument order.
C24_NoSameSourceDuplicates ==
    pc = "idle" =>
        \A i \in DOMAIN store, j \in DOMAIN store :
            (i # j /\ store[i].source_name = store[j].source_name) =>
                ~are_events_duplicate(store[i], store[j])

-----------------------------------------------------------------------------
(* The counts of process_new_events, checked under Spec *)

\* C25: when the for loop of process_new_events is through and the call is
\* about to return (new_count, update_count), the two counts add up to the
\* number of events of the list, the table has new_count rows more than the
\* call found, and with skip_merging the counts are (length of the list, 0).
\* Between calls, which includes a call with an empty list, the counts are
\* (0, 0) and the table is what the last call committed.
C25_CountsAccountForEvents ==
    /\ (pc = "loop" /\ idx > args.length) =>
          /\ counts[1] + counts[2] = args.length
          /\ Cardinality(DOMAIN store) =
                Cardinality(DOMAIN committed) + counts[1]
          /\ args.skip_merging => counts = <<args.length, 0>>
    /\ pc = "idle" => counts = <<0, 0>> /\ store = committed

\* a call on a table with rows is about to return with an insert and an
\* update counted
C25_Witness ==
    /\ phase = "store"
    /\ pc = "loop"
    /\ idx > args.length
    /\ ~args.skip_merging
    /\ counts[1] >= 1
    /\ counts[2] >= 1
    /\ committed # <<>>

-----------------------------------------------------------------------------
(* The lineage the linker builds, checked under Spec *)

\* C26: every row with a parent_id has a parent in the table whose source
\* has a priority at least as high as the row's own.
C26_ParentHasPriority ==
    \A id \in DOMAIN store :
        store[id].parent_id # None =>
            /\ Val(store[id].parent_id) \in DOMAIN store
            /\ Priority(store, Val(store[id].parent_id)) >=
                  Priority(store, id)

\* a lineage of three rows: a row below a row of higher priority that is
\* itself below a row of still higher priority
C26_Witness ==
    \E a, b, c \in DOMAIN store :
        /\ store[a].parent_id = Some(b)
        /\ store[b].parent_id = Some(c)
        /\ Priority(store, a) < Priority(store, b)
        /\ Priority(store, b) < Priority(store, c)

-----------------------------------------------------------------------------
(* Conservation in _find_and_merge_duplicates, checked under SpecBatch *)

\* C27: the merged events and the duplicate count add up to the length of
\* the input list; the merged events carry ids of input events, no id twice;
\* and no input event is lost: each has a merged event that starts no later
\* and was fetched no earlier than it.
C27_BatchConservation ==
    phase = "batched" =>
        LET merged == outs[1].merged_events
        IN  /\ Len(merged) + outs[1].duplicate_count = Len(events)
            /\ \A k \in DOMAIN merged :
                  \E i \in DOMAIN events : merged[k].id = events[i].id
            /\ \A k \in DOMAIN merged, l \in DOMAIN merged :
                  k # l => merged[k].id # merged[l].id
            /\ \A i \in DOMAIN events : \E k \in DOMAIN merged :
                  /\ merged[k].start_time <= events[i].start_time
                  /\ FetchTime(merged[k]) >= FetchTime(events[i])

\* three events of which the first absorbs the other two
C27_Witness ==
    /\ phase = "batched"
    /\ Len(events) = 3
    /\ Len(outs[1].merged_events) = 1
    /\ outs[1].duplicate_count = 2

-----------------------------------------------------------------------------
(* Specification SpecCatalog: the events table under calls of
   process_new_events and of deduplicate_database, one after the other *)

\* the sources whose collectors report in this specification
CatalogFeeds == {"peoply", "navet"}

\* a call for one of these sources; the model stops calling when the ids
\* the table has given out reach MaxRows
StartIngest ==
    /\ StartProcessFrom(CatalogFeeds)
    /\ NextId(store) + args'.length <= MaxRows + 1

\* one call of deduplicate_database as a whole, on a table with rows: the
\* rows in scope are replaced by the merged events and the session commits
Deduplicate ==
    /\ pc = "idle"
    /\ store # <<>>
    /\ \E source_name \in {""} \cup {SOURCES[id].name : id \in CatalogFeeds} :
        LET scope == {id \in DOMAIN store : InScope(store[id], source_name)}
        IN  \E order \in QueryOrders([id \in scope |-> store[id]]) :
              store' = deduplicated(store, source_name, order)
    /\ committed' = store'
    /\ UNCHANGED <<cfg, ev1, ev2, outs, phase, events, sessions, pc, args,
                   idx, event, counts, cur, cands>>

NextCatalog ==
    \/ StartIngest
    \/ ProcessEvent
    \/ LinkStep
    \/ LinkDone
    \/ Finish
    \/ Deduplicate

SpecCatalog == Init /\ [][NextCatalog]_vars

\* the rows of the table st that have this source name
RowsOf(st, source_name) ==
    {st[id] : id \in {i \in DOMAIN st : st[i].source_name = source_name}}

SourceNamesIn(st) == {st[id].source_name : id \in DOMAIN st}

\* the rows of one source are what they were, or what the consolidator
\* makes of the rows of that source alone, listed in some order
MergedWithinSource(source_name) ==
    \/ RowsOf(store', source_name) = RowsOf(store, source_name)
    \/ /\ source_name # ""
       /\ LET ids == {i \in DOMAIN store :
                         store[i].source_name = source_name}
          IN  \E order \in QueryOrders([id \in ids |-> store[id]]) :
                LET found == find_and_merge_duplicates(
                                 [i \in DOMAIN order |-> store[order[i]]])
                IN  RowsOf(store', source_name) =
                        {found.merged_events[i] :
                            i \in DOMAIN found.merged_events}

\* a pass of the for loop that ends in the update of a persisted row
UpdatePass ==
    /\ pc = "loop"
    /\ idx <= args.length
    /\ ~args.skip_merging
    /\ idx' = idx + 1

\* a call of deduplicate_database that changes the table
ConsolidatorStep == pc = "idle" /\ pc' = "idle" /\ store' # store

\* C28: merges stay within one source.  A pass of process_new_events that
\* merges the incoming event into a row changes only rows that have the
\* non-empty source name of the incoming event; a call of
\* deduplicate_database leaves of each source the rows it had or the merge of
\* the rows of that source alone; and no step of either changes the
\* source_name of a row that stays in the table.
C28_MergesWithinSource ==
    [][/\ \A id \in DOMAIN store \cap DOMAIN store' :
             store'[id].source_name = store[id].source_name
       /\ UpdatePass =>
             /\ DOMAIN store' = DOMAIN store
             /\ event'.source_name # ""
             /\ \A id \in DOMAIN store :
                   store'[id] # store[id] =>
                       store[id].source_name = event'.source_name
       /\ ConsolidatorStep =>
             /\ DOMAIN store' \subseteq DOMAIN store
             /\ \A source_name \in SourceNamesIn(store) :
                   MergedWithinSource(source_name)]_vars

\* the consolidator has merged rows away and has left two rows of different
\* sources that differ in nothing but the source
C28_Witness ==
    /\ pc = "idle"
    /\ NextId(store) > Cardinality(DOMAIN store) + 1
    /\ \E i, j \in DOMAIN store :
        /\ store[i].source_name # store[j].source_name
        /\ are_events_cross_source_duplicate(store[i], store[j])

-----------------------------------------------------------------------------
(* The guard against a scan of the whole table, checked under Spec *)

\* the events process_new_events hands to the guard: what a collector
\* reports, with its source name filled in
GuardedEvents ==
    UNION {{[read EXCEPT !.source_name = get_source_display_name(source_id)] :
              read \in NewEvents(source_id)} : source_id \in FeedIds}

\* C29: for every table the calls of process_new_events build and every
\* event they can hand to the guard, the rows check_duplicate_before_insert
\* can return are exactly the rows e of the table with
\* are_events_duplicate(new_event, e): the filter of the query excludes no
\* row the classifier accepts, and a row is returned exactly when there is
\* such a row.
C29_GuardEqualsFullScan ==
    \A new_event \in GuardedEvents :
        check_duplicate_before_insert(store, new_event) =
            {id \in DOMAIN store :
                are_events_duplicate(new_event, store[id])}

\* the guard has found, for the event of the last pass, a row that starts
\* exactly the time window away from it
C29_Witness ==
    /\ pc = "loop"
    /\ counts[2] >= 1
    /\ event \in GuardedEvents
    /\ \E id \in check_duplicate_before_insert(store, event) :
        Abs(store[id].start_time - event.start_time) = TIME_WINDOW_MINUTES

-----------------------------------------------------------------------------
(* What deduplicate_database leaves alone, checked under SpecReplace *)

\* the step is one of a call for the rows of one source
ScopedTo(source_name) == source_name # "" /\ args'.source_id = source_name

\* C30: a call of deduplicate_database whose merge count is 0 returns from
\* its query with the table of the session and the committed table as they
\* were; and no step of a call with a source name deletes, adds or changes a
\* row of another source, in the session or in the committed table.
C30_UntouchedRows ==
    [][/\ (pc = "idle" /\ Len(outs') = 1 /\ outs'[1].duplicate_count = 0) =>
             /\ pc' = "returned"
             /\ store' = store
             /\ committed' = committed
       /\ \A source_name \in TableSources :
             ScopedTo(source_name) =>
                 /\ \A id \in DOMAIN store :
                       store[id].source_name # source_name =>
                           /\ id \in DOMAIN store'
                           /\ store'[id] = store[id]
                 /\ \A id \in DOMAIN store' \ DOMAIN store :
                       store'[id].source_name = source_name
                 /\ \A id \in DOMAIN committed :
                       committed[id].source_name # source_name =>
                           /\ id \in DOMAIN committed'
                           /\ committed'[id] = committed[id]
                 /\ \A id \in DOMAIN committed' \ DOMAIN committed :
                       committed'[id].source_name = source_name]_vars

\* a call for the rows of one source has merged and committed, and the
\* table holds a row of another source
C30_Witness ==
    /\ phase = "replace"
    /\ pc = "returned"
    /\ args.source_id # ""
    /\ Len(outs) = 1
    /\ outs[1].duplicate_count > 0
    /\ Cardinality(DOMAIN committed) = MaxTable - 1
    /\ \E id \in DOMAIN committed :
          committed[id].source_name # args.source_id

====
